---- MODULE Spec2Model ----
(***************************************************************************)
(* A model of the bytecode decompiler fallback (ability/decompiler), the   *)
(* ABI parameter decoder (ability/ethereum/client.py) and the external     *)
(* decompiler adapter.  Hex strings are sequences of one-character         *)
(* strings; Python's 0-based half-open slices are PySlice.                 *)
(***************************************************************************)
EXTENDS Integers, Sequences, FiniteSets, TLC

VARIABLES
    bytecode,       \* the hex string handed to _enhanced_solidity_fallback
    pc,             \* which loop of the fallback is running
    i,              \* the running loop's index i (in characters)
    selectors,      \* _extract_function_selectors: selectors
    storage_slots,  \* _extract_storage_slots: storage_slots
    slot_origin,    \* history: <<back_index, i>> of every appended slot
    result,         \* _disassemble_opcodes: result
    solidity_output, \* the rendered output, piece by piece
    \* decompile_bytecode and its three backend attempts
    input,          \* decompile_bytecode's argument bytecode
    backend,        \* the backend whose attempt is running
    installed,      \* the tools `which` finds (the environment)
    temp_files,     \* the temporary files that exist, by the backend's name
    temp_path,      \* the attempt's local temp_path
    decompiled,     \* what the last attempt returned
    attempts,       \* history: <<backend, how its attempt ended>>, in order
    output,         \* what decompile_bytecode returned
    \* EthereumClient._decode_parameters
    parameters,     \* the hex string of the parameters
    param_types,    \* the list of types
    values,         \* history: the values the parameters encode
    param_index,    \* the position of the for loop in param_types
    offset,         \* the head cursor, in characters
    decoded_params, \* the list being built
    \* EthereumClient._decode_transaction_input
    input_data,     \* the hex string of the transaction's input
    tx_to,          \* tx_dict.get('to')
    call_result,    \* the dictionary returned
    \* InputDecoder
    function_selectors, \* self.function_selectors
    decoder_input,  \* decode_input's argument input_data
    contract_source, \* decode_input's argument contract_source
    abi,            \* the ABI _process_abi is going through
    abi_index,      \* the position of its for loop
    decoded,        \* what decode_input returned
    calls,          \* how many decode_input calls there have been
    selectors_before, \* history: the registry's keys when the call began
    snapshot,       \* history: what a concurrent lookup found
    \* server.py and StateStorage
    running_tasks,  \* running_tasks: for each hash the thread registered, or 0
    task_lock,      \* who holds task_lock, or 0
    files,          \* the state files of StateStorage, by hash
    saved,          \* history: the states save has written, by hash
    threads,        \* the analysis threads: hash, position, their analysis
    requests,       \* the /sign requests: hash and position
    poller,         \* an /analysis-stream request: hash, position, last get
    \* AnalysisState
    analysis,       \* an AnalysisState object
    loaded          \* what StateStorage.get returned for its file

fallback_vars == <<bytecode, pc, i, selectors, storage_slots, slot_origin,
                   result, solidity_output>>
adapter_vars == <<input, backend, installed, temp_files, temp_path,
                  decompiled, attempts, output>>
abi_vars == <<parameters, param_types, values, param_index, offset,
              decoded_params>>
call_vars == <<input_data, tx_to, call_result>>
decoder_vars == <<function_selectors, decoder_input, contract_source, abi,
                  abi_index, decoded, calls, selectors_before, snapshot>>

server_vars == <<running_tasks, task_lock, files, saved, threads, requests,
                 poller>>
state_vars == <<analysis, loaded>>

vars == <<fallback_vars, adapter_vars, abi_vars, call_vars, decoder_vars,
          server_vars, state_vars>>

---------------------------------------------------------------------------
(* Python strings *)

Min(a, b) == IF a < b THEN a ELSE b

\* s[a:b] for 0 <= a <= b
PySlice(s, a, b) == SubSeq(s, a + 1, Min(b, Len(s)))

\* ord(c) for the characters the inputs are drawn from
Ord(c) ==
  CASE c = "0" -> 48 []
       c = "1" -> 49 []
       c = "2" -> 50 []
       c = "3" -> 51 []
       c = "4" -> 52 []
       c = "5" -> 53 []
       c = "6" -> 54 []
       c = "7" -> 55 []
       c = "8" -> 56 []
       c = "9" -> 57 []
       c = "A" -> 65 []
       c = "B" -> 66 []
       c = "C" -> 67 []
       c = "D" -> 68 []
       c = "E" -> 69 []
       c = "F" -> 70 []
       c = "G" -> 71 []
       c = "a" -> 97 []
       c = "b" -> 98 []
       c = "c" -> 99 []
       c = "d" -> 100 []
       c = "e" -> 101 []
       c = "f" -> 102 []
       c = "g" -> 103 []
       c = "x" -> 120 []
       c = "z" -> 122

\* c in "0123456789abcdef"
IsLowerHexChar(c) == \/ (Ord(c) >= 48 /\ Ord(c) <= 57)
                     \/ (Ord(c) >= 97 /\ Ord(c) <= 102)

IsHexChar(c) == IsLowerHexChar(c) \/ (Ord(c) >= 65 /\ Ord(c) <= 70)

\* all(c in "0123456789abcdef" for c in s)
AllLowerHex(s) == \A k \in 1..Len(s) : IsLowerHexChar(s[k])

\* str.lower() on one character
LowerChar(c) ==
  CASE c = "A" -> "a" [] c = "B" -> "b" [] c = "C" -> "c" [] c = "D" -> "d"
    [] c = "E" -> "e" [] c = "F" -> "f" [] c = "G" -> "g" [] OTHER -> c

Lower(s) == [k \in 1..Len(s) |-> LowerChar(s[k])]

\* the value of one hex digit, either case
HexVal(c) == IF Ord(c) <= 57 THEN Ord(c) - 48
             ELSE IF Ord(c) <= 70 THEN Ord(c) - 55 ELSE Ord(c) - 87

\* int(s, 16) raises ValueError unless s is a non-empty run of hex digits
IntRaises(s) == Len(s) = 0 \/ \E k \in 1..Len(s) : ~IsHexChar(s[k])

\* int(s, 16) of a run of hex digits, digit by digit
RECURSIVE IntDigits(_)
IntDigits(s) == IF Len(s) = 0 THEN 0
                ELSE 16 * IntDigits(SubSeq(s, 1, Len(s) - 1))
                     + HexVal(s[Len(s)])

\* int(s, 16): leading zeros add nothing
IntHex(s) ==
    LET significant == {k \in 1..Len(s) : s[k] # "0"}
        first == IF significant = {} THEN Len(s) + 1
                 ELSE CHOOSE k \in significant : \A j \in significant : k <= j
    IN IntDigits(SubSeq(s, first, Len(s)))

\* s <= t on strings of equal length (lexicographic by code point)
RECURSIVE StrLE(_, _)
StrLE(s, t) == IF Len(s) = 0 THEN TRUE
               ELSE IF s[1] # t[1] THEN Ord(s[1]) < Ord(t[1])
               ELSE StrLE(Tail(s), Tail(t))

---------------------------------------------------------------------------
(* Python ints beyond 32 bits.  An int of the ABI decoders can be as large as
   a 32-byte word; it is kept as its limbs of six decimal digits, the least
   significant limb first and the most significant limb not 0 (0 is <<>>). *)

LimbBase == 1000000

\* the int k < 2^31
Big(k) ==
    IF k = 0 THEN <<>>
    ELSE IF k < LimbBase THEN <<k>>
    ELSE <<k % LimbBase, k \div LimbBase>>

\* n * m + c for m <= 256 and c < 256
RECURSIVE MulAdd(_, _, _)
MulAdd(n, m, c) ==
    IF n = <<>> THEN Big(c)
    ELSE LET v == n[1] * m + c
         IN <<v % LimbBase>> \o MulAdd(Tail(n), m, v \div LimbBase)

\* the digits of s from position k on, two at a time, onto acc
RECURSIVE BigDigits(_, _, _)
BigDigits(s, k, acc) ==
    IF k > Len(s) THEN acc
    ELSE BigDigits(s, k + 2,
                   MulAdd(acc, 256, 16 * HexVal(s[k]) + HexVal(s[k + 1])))

\* int(s, 16) of a run of hex digits: leading zeros add nothing
BigHex(s) ==
    LET significant == {k \in 1..Len(s) : s[k] # "0"}
        first == IF significant = {} THEN Len(s) + 1
                 ELSE CHOOSE k \in significant : \A j \in significant : k <= j
        digits == SubSeq(s, first, Len(s))
    IN IF Len(digits) % 2 = 0 THEN BigDigits(digits, 1, <<>>)
       ELSE BigDigits(digits, 2, Big(HexVal(digits[1])))

\* an int used as a position in, or a length of, a string: every string of
\* the model is shorter than LimbBase, so an int of two limbs or more stands
\* for a position beyond the end of all of them
AsIndex(n) ==
    IF n = <<>> THEN 0 ELSE IF Len(n) = 1 THEN n[1] ELSE LimbBase

\* the decimal digits of a limb, all six of them
LimbDigits(v) ==
    [k \in 1..6 |-> <<"0","1","2","3","4","5","6","7","8","9">>
                        [((v \div (10 ^ (6 - k))) % 10) + 1]]

\* the digits of v < 10^6 without leading zeros ("" for 0)
ShortDigits(v) ==
    LET all == LimbDigits(v)
        significant == {k \in 1..6 : all[k] # "0"}
    IN IF significant = {} THEN <<>>
       ELSE SubSeq(all, CHOOSE k \in significant :
                            \A j \in significant : k <= j, 6)

\* the limbs from the most significant down, six digits each
RECURSIVE LowerLimbs(_)
LowerLimbs(n) ==
    IF n = <<>> THEN <<>>
    ELSE LowerLimbs(Tail(n)) \o LimbDigits(n[1])

\* str(n)
BigStr(n) ==
    IF n = <<>> THEN <<"0">>
    ELSE ShortDigits(n[Len(n)]) \o LowerLimbs(SubSeq(n, 1, Len(n) - 1))

---------------------------------------------------------------------------
(* _disassemble_opcodes: the opcode table *)

opcodes ==
    0 :> "STOP" @@ 1 :> "ADD" @@ 2 :> "MUL" @@ 3 :> "SUB" @@ 4 :> "DIV" @@
    5 :> "SDIV" @@ 6 :> "MOD" @@ 7 :> "SMOD" @@ 8 :> "ADDMOD" @@
    9 :> "MULMOD" @@ 10 :> "EXP" @@ 11 :> "SIGNEXTEND" @@ 16 :> "LT" @@
    17 :> "GT" @@ 18 :> "SLT" @@ 19 :> "SGT" @@ 20 :> "EQ" @@
    21 :> "ISZERO" @@ 22 :> "AND" @@ 23 :> "OR" @@ 24 :> "XOR" @@
    25 :> "NOT" @@ 26 :> "BYTE" @@ 27 :> "SHL" @@ 28 :> "SHR" @@
    29 :> "SAR" @@ 32 :> "SHA3" @@ 48 :> "ADDRESS" @@ 49 :> "BALANCE" @@
    50 :> "ORIGIN" @@ 51 :> "CALLER" @@ 52 :> "CALLVALUE" @@
    53 :> "CALLDATALOAD" @@ 54 :> "CALLDATASIZE" @@ 55 :> "CALLDATACOPY" @@
    56 :> "CODESIZE" @@ 57 :> "CODECOPY" @@ 58 :> "GASPRICE" @@
    59 :> "EXTCODESIZE" @@ 60 :> "EXTCODECOPY" @@ 61 :> "RETURNDATASIZE" @@
    62 :> "RETURNDATACOPY" @@ 63 :> "EXTCODEHASH" @@ 64 :> "BLOCKHASH" @@
    65 :> "COINBASE" @@ 66 :> "TIMESTAMP" @@ 67 :> "NUMBER" @@
    68 :> "DIFFICULTY" @@ 69 :> "GASLIMIT" @@ 80 :> "POP" @@ 81 :> "MLOAD" @@
    82 :> "MSTORE" @@ 83 :> "MSTORE8" @@ 84 :> "SLOAD" @@ 85 :> "SSTORE" @@
    86 :> "JUMP" @@ 87 :> "JUMPI" @@ 88 :> "PC" @@ 89 :> "MSIZE" @@
    90 :> "GAS" @@ 91 :> "JUMPDEST" @@ 96 :> "PUSH1" @@ 97 :> "PUSH2" @@
    98 :> "PUSH3" @@ 99 :> "PUSH4" @@ 100 :> "PUSH5" @@ 101 :> "PUSH6" @@
    102 :> "PUSH7" @@ 103 :> "PUSH8" @@ 104 :> "PUSH9" @@ 105 :> "PUSH10" @@
    106 :> "PUSH11" @@ 107 :> "PUSH12" @@ 108 :> "PUSH13" @@
    109 :> "PUSH14" @@ 110 :> "PUSH15" @@ 111 :> "PUSH16" @@
    112 :> "PUSH17" @@ 113 :> "PUSH18" @@ 114 :> "PUSH19" @@
    115 :> "PUSH20" @@ 116 :> "PUSH21" @@ 117 :> "PUSH22" @@
    118 :> "PUSH23" @@ 119 :> "PUSH24" @@ 120 :> "PUSH25" @@
    121 :> "PUSH26" @@ 122 :> "PUSH27" @@ 123 :> "PUSH28" @@
    124 :> "PUSH29" @@ 125 :> "PUSH30" @@ 126 :> "PUSH31" @@
    127 :> "PUSH32" @@ 128 :> "DUP1" @@ 129 :> "DUP2" @@ 130 :> "DUP3" @@
    131 :> "DUP4" @@ 132 :> "DUP5" @@ 133 :> "DUP6" @@ 134 :> "DUP7" @@
    135 :> "DUP8" @@ 136 :> "DUP9" @@ 137 :> "DUP10" @@ 138 :> "DUP11" @@
    139 :> "DUP12" @@ 140 :> "DUP13" @@ 141 :> "DUP14" @@ 142 :> "DUP15" @@
    143 :> "DUP16" @@ 144 :> "SWAP1" @@ 145 :> "SWAP2" @@ 146 :> "SWAP3" @@
    147 :> "SWAP4" @@ 148 :> "SWAP5" @@ 149 :> "SWAP6" @@ 150 :> "SWAP7" @@
    151 :> "SWAP8" @@ 152 :> "SWAP9" @@ 153 :> "SWAP10" @@ 154 :> "SWAP11" @@
    155 :> "SWAP12" @@ 156 :> "SWAP13" @@ 157 :> "SWAP14" @@
    158 :> "SWAP15" @@ 159 :> "SWAP16" @@ 160 :> "LOG0" @@ 161 :> "LOG1" @@
    162 :> "LOG2" @@ 163 :> "LOG3" @@ 164 :> "LOG4" @@ 240 :> "CREATE" @@
    241 :> "CALL" @@ 242 :> "CALLCODE" @@ 243 :> "RETURN" @@
    244 :> "DELEGATECALL" @@ 245 :> "CREATE2" @@ 250 :> "STATICCALL" @@
    253 :> "REVERT" @@ 254 :> "INVALID" @@ 255 :> "SELFDESTRUCT"

\* opcode in opcodes, for the lower-cased two characters at i
InOpcodes(opcode) == /\ Len(opcode) = 2
                     /\ AllLowerHex(opcode)
                     /\ IntHex(opcode) \in DOMAIN opcodes

\* opcode >= "60" and opcode <= "7f" (a string comparison)
IsPushRange(opcode) == StrLE(<<"6","0">>, opcode) /\ StrLE(opcode, <<"7","f">>)

\* (mutant) the size without the + 1
PushSizeMutant(opcode) == IntHex(opcode) - 96

\* push_size = int(opcode, 16) - 0x60 + 1
PushSize(opcode) == IntHex(opcode) - 96 + 1

---------------------------------------------------------------------------
(* _extract_function_selectors *)

known_selectors ==
    <<"a","9","0","5","9","c","b","b">> :> "transfer(address,uint256)" @@
    <<"0","9","5","e","a","7","b","3">> :> "approve(address,uint256)" @@
    <<"2","3","b","8","7","2","d","d">> :> "transferFrom(address,address,uint256)" @@
    <<"7","0","a","0","8","2","3","1">> :> "balanceOf(address)" @@
    <<"1","8","1","6","0","d","d","d">> :> "totalSupply()" @@
    <<"3","1","3","c","e","5","6","7">> :> "decimals()" @@
    <<"0","6","f","d","d","e","0","3">> :> "name()" @@
    <<"9","5","d","8","9","b","4","1">> :> "symbol()" @@
    <<"d","d","6","2","e","d","3","e">> :> "allowance(address,address)"

None == "None"

\* known_selectors.get(potential_selector)
SignatureOf(sel) == IF sel \in DOMAIN known_selectors
                    THEN known_selectors[sel] ELSE None

\* (mutant) the scan moves on by one byte after a PUSH4
Push4SkipMutant == 1 + 1

\* i += 10: "Skip past the PUSH4 and its data"
Push4Skip == 10

\* while i < len(bytecode) - 10
SelectorLoopGuard == i < Len(bytecode) - 10

\* one iteration of the while loop
SelectorStep ==
    /\ pc = "selectors"
    /\ SelectorLoopGuard
    /\ IF PySlice(bytecode, i, i + 2) = <<"6","3">>
       THEN LET potential_selector == PySlice(bytecode, i + 2, i + 10)
            IN /\ selectors' =
                    IF Len(potential_selector) = 8
                       /\ AllLowerHex(potential_selector)
                    THEN Append(selectors,
                                <<potential_selector,
                                  SignatureOf(potential_selector)>>)
                    ELSE selectors
               /\ i' = i + Push4Skip
       ELSE /\ selectors' = selectors
            /\ i' = i + 2
    /\ UNCHANGED <<adapter_vars, abi_vars>>
    /\ UNCHANGED <<bytecode, pc, storage_slots, slot_origin, result,
                   solidity_output>>
    /\ UNCHANGED call_vars
    /\ UNCHANGED decoder_vars
    /\ UNCHANGED <<server_vars, state_vars>>

\* return selectors; the caller goes on to _extract_storage_slots
SelectorsReturn ==
    /\ pc = "selectors"
    /\ ~SelectorLoopGuard
    /\ pc' = "slots"
    /\ i' = 0
    /\ UNCHANGED <<adapter_vars, abi_vars>>
    /\ UNCHANGED <<bytecode, selectors, storage_slots, slot_origin, result,
                   solidity_output>>
    /\ UNCHANGED call_vars
    /\ UNCHANGED decoder_vars
    /\ UNCHANGED <<server_vars, state_vars>>

---------------------------------------------------------------------------
(* _extract_storage_slots *)

\* (mutant) a window of 40 bytes
LookBackMutant == 70 + 10

\* "Don't look back too far": back_index > i - 70
LookBack == 70

\* while i < len(bytecode) - 4
SlotLoopGuard == i < Len(bytecode) - 4

\* bytecode[i:i+2] in ["54", "55"]
IsStorageOp(opcode) == opcode = <<"5","4">> \/ opcode = <<"5","5">>

\* the inner while loop, from back_index down: what it does to storage_slots
\*   "append": a PUSH was found and its slot is appended
\*   "skip"  : a PUSH was found, the slot is empty or not lower-case hex
\*   "raise" : a PUSH-range string was found that int(opcode, 16) rejects
\*   "none"  : the window ended without a PUSH
RECURSIVE BackScan(_, _, _)
BackScan(bc, at, back_index) ==
    IF ~(back_index >= 0 /\ back_index > at - LookBack)
    THEN [kind |-> "none", slot |-> <<>>, back_index |-> back_index]
    ELSE LET opcode == PySlice(bc, back_index, back_index + 2)
         IN IF IsPushRange(opcode)
            THEN IF IntRaises(opcode)
                 THEN [kind |-> "raise", slot |-> <<>>,
                       back_index |-> back_index]
                 ELSE LET push_size == PushSize(opcode)
                          slot == PySlice(bc, back_index + 2,
                                          back_index + 2 + (push_size * 2))
                      IN [kind |-> IF Len(slot) > 0 /\ AllLowerHex(slot)
                                   THEN "append" ELSE "skip",
                          slot |-> slot, back_index |-> back_index]
            ELSE BackScan(bc, at, back_index - 2)

\* one iteration of the outer while loop
SlotStep ==
    /\ pc = "slots"
    /\ SlotLoopGuard
    /\ IF IsStorageOp(PySlice(bytecode, i, i + 2))
       THEN LET scan == BackScan(bytecode, i, i - 2)
            IN /\ storage_slots' = IF scan.kind = "append"
                                   THEN Append(storage_slots, scan.slot)
                                   ELSE storage_slots
               /\ slot_origin' = IF scan.kind = "append"
                                 THEN Append(slot_origin,
                                             <<scan.back_index, i>>)
                                 ELSE slot_origin
               /\ pc' = IF scan.kind = "raise" THEN "raised" ELSE pc
               /\ i' = IF scan.kind = "raise" THEN i ELSE i + 2
       ELSE /\ i' = i + 2
            /\ UNCHANGED <<storage_slots, slot_origin, pc>>
    /\ UNCHANGED <<adapter_vars, abi_vars>>
    /\ UNCHANGED <<bytecode, selectors, result, solidity_output>>
    /\ UNCHANGED call_vars
    /\ UNCHANGED decoder_vars
    /\ UNCHANGED <<server_vars, state_vars>>

\* (mutant) the list as it is, duplicates kept
ListOfSetMutant(xs) == {xs}

\* the orders list(set(xs)) can return: every arrangement of the distinct values
ListOfSet(xs) ==
    LET S == {xs[k] : k \in 1..Len(xs)}
        n == Cardinality(S)
    IN {s \in [1..n -> S] : \A a, b \in 1..n : a # b => s[a] # s[b]}

\* return list(set(storage_slots)); the caller goes on to _disassemble_opcodes
SlotsReturn ==
    /\ pc = "slots"
    /\ ~SlotLoopGuard
    /\ storage_slots' \in ListOfSet(storage_slots)
    /\ pc' = "disasm"
    /\ i' = 0
    /\ UNCHANGED <<adapter_vars, abi_vars>>
    /\ UNCHANGED <<bytecode, selectors, slot_origin, result, solidity_output>>
    /\ UNCHANGED call_vars
    /\ UNCHANGED decoder_vars
    /\ UNCHANGED <<server_vars, state_vars>>

---------------------------------------------------------------------------
(* _disassemble_opcodes *)

\* the entry appended to result, by the f-string that builds it:
\*   "unknown"    0x{opcode} (UNKNOWN)
\*   "push"       0x{opcode} {opcode_name} 0x{pushed_data}
\*   "incomplete" 0x{opcode} {opcode_name} (incomplete)
\*   "plain"      0x{opcode} {opcode_name}
Entry(form, opcode, name, data) ==
    [form |-> form, opcode |-> opcode, name |-> name, data |-> data]

\* (mutant) an unknown byte swallows the byte after it
UnknownNextMutant(at) == at + 4

\* i += 2 after an UNKNOWN entry
UnknownNext(at) == at + 2

\* (mutant) the scan goes on after an incomplete PUSH
IncompleteNextMutant(bc, at) == at + 2

\* i = len(bytecode) after an incomplete PUSH: "End loop"
IncompleteNext(bc, at) == Len(bc)

\* while i < len(bytecode)
DisasmLoopGuard == i < Len(bytecode)

\* the entry and the next i of one iteration at index at
DisasmAt(bc, at) ==
    LET opcode == Lower(PySlice(bc, at, at + 2))
    IN IF ~InOpcodes(opcode)
       THEN [entry |-> Entry("unknown", opcode, "UNKNOWN", <<>>),
             next |-> UnknownNext(at)]
       ELSE LET opcode_name == opcodes[IntHex(opcode)]
            IN IF IsPushRange(opcode)
               THEN LET push_size == PushSize(opcode)
                    IN IF at + 2 + (push_size * 2) <= Len(bc)
                       THEN [entry |-> Entry("push", opcode, opcode_name,
                                         PySlice(bc, at + 2,
                                                 at + 2 + (push_size * 2))),
                             next |-> at + 2 + (push_size * 2)]
                       ELSE [entry |-> Entry("incomplete", opcode,
                                             opcode_name, <<>>),
                             next |-> IncompleteNext(bc, at)]
               ELSE [entry |-> Entry("plain", opcode, opcode_name, <<>>),
                     next |-> at + 2]

\* one iteration of the while loop
DisasmStep ==
    /\ pc = "disasm"
    /\ DisasmLoopGuard
    /\ LET step == DisasmAt(bytecode, i)
       IN /\ result' = Append(result, step.entry)
          /\ i' = step.next
    /\ UNCHANGED <<adapter_vars, abi_vars>>
    /\ UNCHANGED <<bytecode, pc, selectors, storage_slots, slot_origin,
                   solidity_output>>
    /\ UNCHANGED call_vars
    /\ UNCHANGED decoder_vars
    /\ UNCHANGED <<server_vars, state_vars>>

\* return result; the caller goes on to format the output
DisasmReturn ==
    /\ pc = "disasm"
    /\ ~DisasmLoopGuard
    /\ pc' = "render"
    /\ UNCHANGED <<adapter_vars, abi_vars>>
    /\ UNCHANGED <<bytecode, i, selectors, storage_slots, slot_origin, result,
                   solidity_output>>
    /\ UNCHANGED call_vars
    /\ UNCHANGED decoder_vars
    /\ UNCHANGED <<server_vars, state_vars>>

---------------------------------------------------------------------------
(* _enhanced_solidity_fallback *)

\* if bytecode.startswith("0x"): bytecode = bytecode[2:]
StripPrefix(s) == IF PySlice(s, 0, 2) = <<"0","x">>
                  THEN PySlice(s, 2, Len(s)) ELSE s

NoEntry == Entry("", <<>>, "", <<>>)

\* one piece of text appended to solidity_output
Part(kind, idx, text, sig, entry) ==
    [kind |-> kind, idx |-> idx, text |-> text, sig |-> sig, entry |-> entry]

Fixed(kind) == Part(kind, 0, <<>>, None, NoEntry)

\* opcodes[:100]
ListedOpcodes(ops) == PySlice(ops, 0, 100)

\* (mutant) the marker is added at exactly 100 instructions too
IsTruncatedMutant(ops) == Len(ops) >= 100

\* len(opcodes) > 100
IsTruncated(ops) == Len(ops) > 100

\* the storage stubs: for i, slot in enumerate(storage_slots)
StoragePart(slots) ==
    IF Len(slots) > 0
    THEN <<Fixed("storage_comment")>>
         \o [k \in 1..Len(slots) |->
               Part("storage_stub", k - 1, slots[k], None, NoEntry)]
         \o <<Fixed("blank")>>
    ELSE <<>>

\* the stub functions: for selector, signature in function_selectors
SelectorPart(sels) ==
    IF Len(sels) > 0
    THEN <<Fixed("selectors_comment")>>
         \o [k \in 1..Len(sels) |->
               Part("function_stub", 0, sels[k][1], sels[k][2], NoEntry)]
    ELSE <<>>

\* the trailing comment with the disassembly
ListingPart(ops) ==
    <<Fixed("listing_open")>>
    \o [k \in 1..Len(ListedOpcodes(ops)) |->
          Part("opcode", 0, <<>>, None, ListedOpcodes(ops)[k])]
    \o (IF IsTruncated(ops) THEN <<Fixed("truncated")>> ELSE <<>>)
    \o <<Fixed("listing_close")>>

Rendered(sels, slots, ops) ==
    <<Fixed("header"), Fixed("pragma"), Fixed("contract_open")>>
    \o StoragePart(slots)
    \o SelectorPart(sels)
    \o <<Fixed("fallback_stub"), Fixed("receive_stub"), Fixed("contract_close")>>
    \o ListingPart(ops)

\* entry of the function: the prefix is stripped, the selector scan starts
FallbackEnter ==
    /\ pc = "fallback"
    /\ bytecode' = StripPrefix(bytecode)
    /\ pc' = "selectors"
    /\ i' = 0
    /\ UNCHANGED <<adapter_vars, abi_vars>>
    /\ UNCHANGED <<selectors, storage_slots, slot_origin, result,
                   solidity_output>>
    /\ UNCHANGED call_vars
    /\ UNCHANGED decoder_vars
    /\ UNCHANGED <<server_vars, state_vars>>

\* the output is composed and returned
Render ==
    /\ pc = "render"
    /\ solidity_output' = Rendered(selectors, storage_slots, result)
    /\ pc' = "done"
    /\ UNCHANGED <<adapter_vars, abi_vars>>
    /\ UNCHANGED <<bytecode, i, selectors, storage_slots, slot_origin, result>>
    /\ UNCHANGED call_vars
    /\ UNCHANGED decoder_vars
    /\ UNCHANGED <<server_vars, state_vars>>

---------------------------------------------------------------------------
(* The bytecode inputs *)

MaxBytes == 6
MaxWindowRun == 36
MaxLongRun == 102

\* the bytes short inputs are made of: PUSH4, PUSH1, SLOAD, a byte that is
\* no opcode, and a byte that is not lower-case hex
ByteAlphabet == {<<"6","3">>, <<"6","0">>, <<"5","4">>, <<"0","c">>,
                 <<"6","G">>}

RECURSIVE Strings(_, _)
Strings(alphabet, n) ==
    IF n = 0 THEN {<<>>}
    ELSE LET shorter == Strings(alphabet, n - 1)
         IN shorter \cup {s \o b : s \in {x \in shorter : Len(x) = 2 * (n - 1)},
                                   b \in alphabet}

\* k JUMPDEST bytes
Fill(k) == [j \in 1..(2 * k) |-> IF j % 2 = 1 THEN "5" ELSE "b"]

ShortInputs == Strings(ByteAlphabet, MaxBytes)

\* a PUSH, a run of JUMPDESTs, an SLOAD or SSTORE, and two more bytes
WindowInputs ==
    {push \o Fill(k) \o op \o <<"0","0","0","0">> :
        push \in {<<"6","0","0","1">>, <<"6","1","0","2","0","3">>},
        k \in 30..MaxWindowRun,
        op \in {<<"5","4">>, <<"5","5">>}}

\* a PUSH32 with 30.. bytes after it
Push32Inputs == {pre \o <<"7","f">> \o Fill(k) :
                    pre \in {<<>>, <<"7","F">>}, k \in 30..(MaxWindowRun - 2)}

\* around 100 instructions
LongInputs == {Fill(k) \o tail : k \in 98..MaxLongRun,
                                 tail \in Strings({<<"6","0">>, <<"0","c">>}, 1)}

\* odd lengths, a display prefix, upper case, known selectors, a selector
\* after a JUMPDEST, after a PUSH1 and after a PUSH2, and a slot read and
\* written and a selector pushed twice
OtherInputs ==
    {<<"0","x">> \o s : s \in Strings({<<"6","0">>, <<"5","4">>}, 2)}
    \cup {s \o <<"6">> : s \in Strings({<<"6","0">>, <<"5","4">>}, 2)}
    \cup {<<"6","3">> \o sel \o tail :
            sel \in {<<"1","8","1","6","0","d","d","d">>,
                     <<"A","9","0","5","9","C","B","B">>,
                     <<"a","9","0","5","9","c","b","b">>},
            tail \in Strings({<<"6","3">>, <<"5","4">>}, 2)}
    \cup {pre \o <<"6","3","a","9","0","5","9","c","b","b","0","0">> :
            pre \in {<<"5","b">>, <<"6","0">>, <<"6","1">>}}
    \cup {<<"6","0","0","1","5","4","6","0","0","1","5","5">>
          \o <<"6","3","a","9","0","5","9","c","b","b">>
          \o <<"6","3","a","9","0","5","9","c","b","b">>
          \o [k \in 1..12 |-> "0"]}

Inputs == ShortInputs \cup WindowInputs \cup Push32Inputs \cup LongInputs
          \cup OtherInputs

---------------------------------------------------------------------------
(* The fallback on every input *)

\* a returned text: a backend's output under its banner, the fallback's
\* output, or the failure message with the echoed input; or None
Text(kind, by, body, echo) ==
    [kind |-> kind, by |-> by, body |-> body, echo |-> echo]

NoText == Text("None", "", <<>>, <<>>)

\* the locals of the fallback before it has run
FallbackLocals ==
    /\ i = 0
    /\ selectors = <<>>
    /\ storage_slots = <<>>
    /\ slot_origin = <<>>
    /\ result = <<>>
    /\ solidity_output = <<>>

\* no decompile_bytecode call is under way
AdapterIdle ==
    /\ input = <<>>
    /\ backend = "none"
    /\ installed = {}
    /\ temp_files = {}
    /\ temp_path = None
    /\ decompiled = NoText
    /\ attempts = <<>>
    /\ output = NoText

\* a dictionary of _decode_transaction_input: the keys it holds and, for each
\* key, the value ('parameters' as the <<name, value>> pairs in the order of
\* insertion)
Dict(keys, type, function_selector, info, params, raw, error, code) ==
    [keys |-> keys, type |-> type, function_selector |-> function_selector,
     name |-> info[1], signature |-> info[2], description |-> info[3],
     parameters |-> params, raw_parameters |-> raw, decoding_error |-> error,
     bytecode |-> code]

NoDict == Dict({}, "", <<>>, <<"", "", "">>, <<>>, <<>>, "", <<>>)

\* no _decode_transaction_input call is under way
CallIdle ==
    /\ input_data = <<>>
    /\ tx_to = "None"
    /\ call_result = NoDict

\* there is no InputDecoder
DecoderIdle ==
    /\ function_selectors = <<>>
    /\ decoder_input = <<>>
    /\ contract_source = [kind |-> "None", items |-> <<>>]
    /\ abi = <<>>
    /\ abi_index = 0
    /\ decoded = <<>>
    /\ calls = 0
    /\ selectors_before = {}
    /\ snapshot = [seen |-> {}, adding |-> {}]

\* the server is not running and there is no AnalysisState object
ServerIdle ==
    /\ running_tasks = <<>>
    /\ task_lock = 0
    /\ files = <<>>
    /\ saved = <<>>
    /\ threads = <<>>
    /\ requests = <<>>
    /\ poller = <<>>
    /\ analysis = <<>>
    /\ loaded = <<>>

\* no _decode_parameters call is under way
AbiIdle ==
    /\ parameters = <<>>
    /\ param_types = <<>>
    /\ values = <<>>
    /\ param_index = 0
    /\ offset = 0
    /\ decoded_params = <<>>

Init ==
    /\ bytecode \in Inputs
    /\ pc = "fallback"
    /\ FallbackLocals
    /\ AdapterIdle
    /\ AbiIdle
    /\ CallIdle
    /\ DecoderIdle
    /\ ServerIdle

Next ==
    \/ FallbackEnter
    \/ SelectorStep
    \/ SelectorsReturn
    \/ SlotStep
    \/ SlotsReturn
    \/ DisasmStep
    \/ DisasmReturn
    \/ Render

Spec == Init /\ [][Next]_vars

---------------------------------------------------------------------------
(* decompile_bytecode and the backend attempts *)

\* the order decompile_bytecode tries the backends in
Backends == <<"heimdall", "panoramix", "ethersplay">>

\* bytes.fromhex(s) raises ValueError
FromHexRaises(s) == Len(s) % 2 = 1 \/ \E k \in 1..Len(s) : ~IsHexChar(s[k])

\* writing the bytecode into the temporary file raises: ethersplay converts
\* the stripped bytecode with bytes.fromhex, the other two write
\* bytecode.encode()
WriteRaises(tool, s) == tool = "ethersplay" /\ FromHexRaises(StripPrefix(s))

\* how a run of the tool can end: return code 0 with output, return code 0
\* without output, another return code, TimeoutExpired, any other exception
RunOutcomes == {"success", "empty", "failed", "timeout", "error"}

\* if result.returncode == 0 and result.stdout: the attempt returns the
\* banner and the tool's output, a non-empty string
ReturnsTextMutant(outcome) == outcome \in {"success", "empty"}

ReturnsText(outcome) == outcome = "success"

\* subprocess.run(["which", tool]); a return code other than 0 returns None
Which ==
    /\ pc = "which"
    /\ IF backend \in installed
       THEN /\ pc' = "stage"
            /\ UNCHANGED <<decompiled, attempts>>
       ELSE /\ pc' = "attempt_returned"
            /\ decompiled' = NoText
            /\ attempts' = Append(attempts, <<backend, "unavailable">>)
    /\ UNCHANGED <<input, backend, installed, temp_files, temp_path, output>>
    /\ UNCHANGED <<bytecode, i, selectors, storage_slots, slot_origin, result,
                   solidity_output>>
    /\ UNCHANGED abi_vars
    /\ UNCHANGED call_vars
    /\ UNCHANGED decoder_vars
    /\ UNCHANGED <<server_vars, state_vars>>

\* with tempfile.NamedTemporaryFile(delete=False) as temp: the file is
\* created and the bytecode written; an exception in the block leaves the
\* with statement (the file is closed, not deleted) and is caught by the
\* attempt's except Exception, which returns None
Stage ==
    /\ pc = "stage"
    /\ temp_files' = temp_files \cup {backend}
    /\ IF WriteRaises(backend, input)
       THEN /\ pc' = "attempt_returned"
            /\ decompiled' = NoText
            /\ attempts' = Append(attempts, <<backend, "error">>)
            /\ UNCHANGED temp_path
       ELSE /\ pc' = "run"
            /\ temp_path' = backend
            /\ UNCHANGED <<decompiled, attempts>>
    /\ UNCHANGED <<input, backend, installed, output>>
    /\ UNCHANGED <<bytecode, i, selectors, storage_slots, slot_origin, result,
                   solidity_output>>
    /\ UNCHANGED abi_vars
    /\ UNCHANGED call_vars
    /\ UNCHANGED decoder_vars
    /\ UNCHANGED <<server_vars, state_vars>>

\* subprocess.run([tool, temp_path], timeout=...) inside try: the value the
\* attempt is about to return
RunTool ==
    /\ pc = "run"
    /\ \E outcome \in RunOutcomes :
          /\ decompiled' = IF ReturnsText(outcome)
                           THEN Text("backend", backend, <<>>, <<>>)
                           ELSE NoText
          /\ attempts' = Append(attempts, <<backend, outcome>>)
    /\ pc' = "finally"
    /\ UNCHANGED <<input, backend, installed, temp_files, temp_path, output>>
    /\ UNCHANGED <<bytecode, i, selectors, storage_slots, slot_origin, result,
                   solidity_output>>
    /\ UNCHANGED abi_vars
    /\ UNCHANGED call_vars
    /\ UNCHANGED decoder_vars
    /\ UNCHANGED <<server_vars, state_vars>>

\* finally: if os.path.exists(temp_path): os.remove(temp_path)
Finally ==
    /\ pc = "finally"
    /\ temp_files' = temp_files \ {temp_path}
    /\ pc' = "attempt_returned"
    /\ UNCHANGED <<input, backend, installed, temp_path, decompiled, attempts,
                   output>>
    /\ UNCHANGED <<bytecode, i, selectors, storage_slots, slot_origin, result,
                   solidity_output>>
    /\ UNCHANGED abi_vars
    /\ UNCHANGED call_vars
    /\ UNCHANGED decoder_vars
    /\ UNCHANGED <<server_vars, state_vars>>

\* if decompiled: return decompiled
ReturnDecompiled ==
    /\ pc = "attempt_returned"
    /\ decompiled # NoText
    /\ output' = decompiled
    /\ pc' = "returned"
    /\ UNCHANGED <<input, backend, installed, temp_files, temp_path,
                   decompiled, attempts>>
    /\ UNCHANGED <<bytecode, i, selectors, storage_slots, slot_origin, result,
                   solidity_output>>
    /\ UNCHANGED abi_vars
    /\ UNCHANGED call_vars
    /\ UNCHANGED decoder_vars
    /\ UNCHANGED <<server_vars, state_vars>>

\* the next backend is tried
TryNext ==
    /\ pc = "attempt_returned"
    /\ decompiled = NoText
    /\ backend # Backends[Len(Backends)]
    /\ backend' = Backends[1 + CHOOSE k \in 1..Len(Backends) :
                                          Backends[k] = backend]
    /\ temp_path' = None
    /\ pc' = "which"
    /\ UNCHANGED <<input, installed, temp_files, decompiled, attempts, output>>
    /\ UNCHANGED <<bytecode, i, selectors, storage_slots, slot_origin, result,
                   solidity_output>>
    /\ UNCHANGED abi_vars
    /\ UNCHANGED call_vars
    /\ UNCHANGED decoder_vars
    /\ UNCHANGED <<server_vars, state_vars>>

\* return _enhanced_solidity_fallback(bytecode): the call
CallFallback ==
    /\ pc = "attempt_returned"
    /\ decompiled = NoText
    /\ backend = Backends[Len(Backends)]
    /\ bytecode' = input
    /\ pc' = "fallback"
    /\ UNCHANGED <<i, selectors, storage_slots, slot_origin, result,
                   solidity_output>>
    /\ UNCHANGED adapter_vars
    /\ UNCHANGED abi_vars
    /\ UNCHANGED call_vars
    /\ UNCHANGED decoder_vars
    /\ UNCHANGED <<server_vars, state_vars>>

\* return _enhanced_solidity_fallback(bytecode): the fallback's text
ReturnFallback ==
    /\ pc = "done"
    /\ output' = Text("fallback", "", solidity_output, <<>>)
    /\ pc' = "returned"
    /\ UNCHANGED <<input, backend, installed, temp_files, temp_path,
                   decompiled, attempts>>
    /\ UNCHANGED <<bytecode, i, selectors, storage_slots, slot_origin, result,
                   solidity_output>>
    /\ UNCHANGED abi_vars
    /\ UNCHANGED call_vars
    /\ UNCHANGED decoder_vars
    /\ UNCHANGED <<server_vars, state_vars>>

\* (mutant) the failure message echoes the whole input
EchoMutant(s) == s

\* bytecode[:100]
Echo(s) == PySlice(s, 0, 100)

\* except Exception as e: "Decompilation failed: ... {bytecode[:100]}..."
CatchFault ==
    /\ pc = "raised"
    /\ output' = Text("failed", "", <<>>, Echo(input))
    /\ pc' = "returned"
    /\ UNCHANGED <<input, backend, installed, temp_files, temp_path,
                   decompiled, attempts>>
    /\ UNCHANGED <<bytecode, i, selectors, storage_slots, slot_origin, result,
                   solidity_output>>
    /\ UNCHANGED abi_vars
    /\ UNCHANGED call_vars
    /\ UNCHANGED decoder_vars
    /\ UNCHANGED <<server_vars, state_vars>>

\* well-formed and malformed bytecode, with and without the display prefix
DecompileInputs ==
    Strings({<<"6","0">>, <<"5","4">>}, 2)
    \cup {<<"0","x">> \o s : s \in Strings({<<"6","0">>}, 2)}
    \cup {<<"6">>, <<"0","x","6","0","5">>, <<"z","z">>,
          <<"6","G","5","4","0","0","0","0">>,
          <<"6","G","5","4">> \o Fill(50),
          <<"6","3","1","8","1","6","0","d","d","d","0","0">>}

InitDecompile ==
    /\ input \in DecompileInputs
    /\ installed \in SUBSET {Backends[k] : k \in 1..Len(Backends)}
    /\ backend = Backends[1]
    /\ pc = "which"
    /\ temp_files = {}
    /\ temp_path = None
    /\ decompiled = NoText
    /\ attempts = <<>>
    /\ output = NoText
    /\ bytecode = <<>>
    /\ FallbackLocals
    /\ AbiIdle
    /\ CallIdle
    /\ DecoderIdle
    /\ ServerIdle

NextDecompile ==
    \/ Which
    \/ Stage
    \/ RunTool
    \/ Finally
    \/ ReturnDecompiled
    \/ TryNext
    \/ CallFallback
    \/ FallbackEnter
    \/ SelectorStep
    \/ SelectorsReturn
    \/ SlotStep
    \/ SlotsReturn
    \/ DisasmStep
    \/ DisasmReturn
    \/ Render
    \/ ReturnFallback
    \/ CatchFault

SpecDecompile == InitDecompile /\ [][NextDecompile]_vars

---------------------------------------------------------------------------
(* EthereumClient._decode_parameters *)

\* a Python value: a str, an int, a bool, a list or None
Str(s) == [t |-> "str", s |-> s, n |-> <<>>, b |-> FALSE, items |-> <<>>]
Int_(n) == [t |-> "int", s |-> <<>>, n |-> n, b |-> FALSE, items |-> <<>>]
Bool(b) == [t |-> "bool", s |-> <<>>, n |-> <<>>, b |-> b, items |-> <<>>]
List(items) == [t |-> "list", s |-> <<>>, n |-> <<>>, b |-> FALSE,
                items |-> items]
NoneValue == [t |-> "None", s |-> <<>>, n |-> <<>>, b |-> FALSE,
              items |-> <<>>]

\* no value: for _ in range(array_length) with an array_length of LimbBase
\* or more (a length word can hold up to 2^256 - 1) appends to array_items
\* until the memory is used up
Exhausted == [t |-> "exhausted", s |-> <<>>, n |-> <<>>, b |-> FALSE,
              items |-> <<>>]

\* the type names of the model
TypeNames == {"address", "uint256", "bool", "bytes", "address[]", "uint256[]",
              "bool[]", "bytes32"}

\* param_type.startswith('uint')
StartsWithUint(param_type) == param_type \in {"uint256", "uint256[]"}

\* param_type.endswith('[]')
EndsWithBrackets(param_type) ==
    param_type \in {"address[]", "uint256[]", "bool[]"}

\* param_type[:-2]
BaseType(param_type) ==
    CASE param_type = "address[]" -> "address"
      [] param_type = "uint256[]" -> "uint256"
      [] param_type = "bool[]" -> "bool"

\* s[-40:] of a 64-character word
Last40(s) == SubSeq(s, Len(s) - 39, Len(s))

\* Web3.to_checksum_address inside try/except-pass.  A string that is not a
\* hex address makes it raise and stays as it is.  In a hex address EIP-55
\* leaves every decimal digit as it is and sets the case of a letter from
\* keccak256 of the address, which is outside the model: the addresses of
\* the model hold no letters, so they come back as they are.
ToChecksumAddress(address) == address

\* '0x' + word[-40:], checksummed
AddressOfWord(word) == ToChecksumAddress(<<"0","x">> \o Last40(word))

\* '0' * n
Zeros(n) == [k \in 1..n |-> "0"]

\* the item loop of an array: for _ in range(array_length)
RECURSIVE ArrayItems(_, _, _, _)
ArrayItems(params, base_type, current_offset, remaining) ==
    IF remaining = 0 THEN <<>>
    ELSE IF base_type = "address"
    THEN IF current_offset + 64 <= Len(params)
         THEN <<Str(AddressOfWord(PySlice(params, current_offset,
                                          current_offset + 64)))>>
              \o ArrayItems(params, base_type, current_offset + 64,
                            remaining - 1)
         ELSE <<NoneValue>>
              \o ArrayItems(params, base_type, current_offset, remaining - 1)
    ELSE IF StartsWithUint(base_type)
    THEN IF current_offset + 64 <= Len(params)
         THEN <<Int_(BigHex(PySlice(params, current_offset,
                                    current_offset + 64)))>>
              \o ArrayItems(params, base_type, current_offset + 64,
                            remaining - 1)
         ELSE <<NoneValue>>
              \o ArrayItems(params, base_type, current_offset, remaining - 1)
    ELSE <<Str(<<"0","x">> \o PySlice(params, current_offset,
                                      current_offset + 64))>>
         \o ArrayItems(params, base_type, current_offset + 64, remaining - 1)

\* one pass of the for loop over param_types: the value appended and the
\* offset afterwards.  The branches are tested in the order of the if/elif
\* chain: address, startswith('uint'), bool, bytes, endswith('[]'), other.
DecodeOne(params, param_type, off) ==
    LET word == PySlice(params, off, off + 64)
        fits == off + 64 <= Len(params)
    IN IF param_type = "address"
       THEN IF fits THEN [value |-> Str(AddressOfWord(word)), offset |-> off + 64]
            ELSE [value |-> NoneValue, offset |-> off]
       ELSE IF StartsWithUint(param_type)
       THEN IF fits THEN [value |-> Int_(BigHex(word)), offset |-> off + 64]
            ELSE [value |-> NoneValue, offset |-> off]
       ELSE IF param_type = "bool"
       THEN IF fits THEN [value |-> Bool(word # Zeros(64)), offset |-> off + 64]
            ELSE [value |-> NoneValue, offset |-> off]
       ELSE IF param_type = "bytes"
       THEN IF fits
            THEN LET data_offset == AsIndex(BigHex(word)) * 2
                 IN IF data_offset + 64 <= Len(params)
                    THEN LET length ==
                                 AsIndex(BigHex(PySlice(params, data_offset,
                                                data_offset + 64))) * 2
                             start == data_offset + 64
                         IN IF start + length <= Len(params)
                            THEN [value |-> Str(<<"0","x">>
                                       \o PySlice(params, start, start + length)),
                                  offset |-> off + 64]
                            ELSE [value |-> NoneValue, offset |-> off + 64]
                    ELSE [value |-> NoneValue, offset |-> off + 64]
            ELSE [value |-> NoneValue, offset |-> off]
       ELSE IF EndsWithBrackets(param_type)
       THEN IF fits
            THEN LET array_offset == AsIndex(BigHex(word)) * 2
                 IN IF array_offset + 64 <= Len(params)
                    THEN LET array_length ==
                                 AsIndex(BigHex(PySlice(params, array_offset,
                                                array_offset + 64)))
                         IN IF array_length >= LimbBase
                            THEN [value |-> Exhausted, offset |-> off + 64]
                            ELSE [value |-> List(ArrayItems(params,
                                                BaseType(param_type),
                                                array_offset + 64,
                                                array_length)),
                                  offset |-> off + 64]
                    ELSE [value |-> List(<<>>), offset |-> off + 64]
            ELSE [value |-> List(<<>>), offset |-> off]
       ELSE IF fits
            THEN [value |-> Str(<<"0","x">> \o word), offset |-> off + 64]
            ELSE [value |-> NoneValue, offset |-> off]

\* (mutant) a parameter that cannot be read gets no entry
AppendedMutant(list, value) ==
    IF value = NoneValue THEN list ELSE Append(list, value)

\* decoded_params.append(...)
Appended(list, value) == Append(list, value)

\* for param_type in param_types: one pass
DecodeParam ==
    /\ pc = "decode"
    /\ param_index <= Len(param_types)
    /\ LET step == DecodeOne(parameters, param_types[param_index], offset)
       IN IF step.value = Exhausted
          THEN /\ pc' = "exhausted"
               /\ UNCHANGED <<decoded_params, offset, param_index>>
          ELSE /\ decoded_params' = Appended(decoded_params, step.value)
               /\ offset' = step.offset
               /\ param_index' = param_index + 1
               /\ UNCHANGED pc
    /\ UNCHANGED <<parameters, param_types, values>>
    /\ UNCHANGED <<bytecode, i, selectors, storage_slots, slot_origin, result,
                   solidity_output>>
    /\ UNCHANGED adapter_vars
    /\ UNCHANGED call_vars
    /\ UNCHANGED decoder_vars
    /\ UNCHANGED <<server_vars, state_vars>>

\* return decoded_params
DecodeReturn ==
    /\ pc = "decode"
    /\ param_index > Len(param_types)
    /\ pc' = "decoded"
    /\ UNCHANGED abi_vars
    /\ UNCHANGED <<bytecode, i, selectors, storage_slots, slot_origin, result,
                   solidity_output>>
    /\ UNCHANGED adapter_vars
    /\ UNCHANGED call_vars
    /\ UNCHANGED decoder_vars
    /\ UNCHANGED <<server_vars, state_vars>>

---------------------------------------------------------------------------
(* The reference ABI encoder: 32-byte words, heads then tails, a dynamic
   value's head word holding the byte offset of its tail *)

LowerHexDigits == <<"0","1","2","3","4","5","6","7","8","9",
                    "a","b","c","d","e","f">>

\* n < 16^8 as `width` lower-case hex digits (width >= 8)
IntToHex(n, width) ==
    Zeros(width - 8)
    \o [k \in 1..8 |-> LowerHexDigits[((n \div (16 ^ (8 - k))) % 16) + 1]]

EncodeWord(n) == IntToHex(n, 64)

\* an int without its most significant limbs that are 0
Norm(n) ==
    LET significant == {k \in 1..Len(n) : n[k] # 0}
    IN IF significant = {} THEN <<>>
       ELSE SubSeq(n, 1, CHOOSE k \in significant :
                            \A j \in significant : j <= k)

\* n \div d and n % d for d <= 16: long division from the top limb down
RECURSIVE DivLimbs(_, _, _)
DivLimbs(n, d, carry) ==
    IF n = <<>> THEN [quot |-> <<>>, rem |-> carry]
    ELSE LET v == carry * LimbBase + n[Len(n)]
             low == DivLimbs(SubSeq(n, 1, Len(n) - 1), d, v % d)
         IN [quot |-> Append(low.quot, v \div d), rem |-> low.rem]

DivSmall(n, d) ==
    LET qr == DivLimbs(n, d, 0)
    IN [quot |-> Norm(qr.quot), rem |-> qr.rem]

\* the hex digits of an int, without leading zeros
RECURSIVE BigToHex(_)
BigToHex(n) ==
    IF n = <<>> THEN <<>>
    ELSE LET qr == DivSmall(n, 16)
         IN Append(BigToHex(qr.quot), LowerHexDigits[qr.rem + 1])

\* the word of an int below 2^256
EncodeBig(n) == LET digits == BigToHex(n)
                IN Zeros(64 - Len(digits)) \o digits

IsDynamic(param_type) ==
    param_type = "bytes" \/ EndsWithBrackets(param_type)

\* the word of a static value (an address is '0x' and 40 digits)
EncodeStatic(param_type, value) ==
    CASE param_type = "address" -> Zeros(24) \o SubSeq(value.s, 3, 42)
      [] param_type = "uint256" -> EncodeBig(value.n)
      [] param_type = "uint8" -> EncodeBig(value.n)
      [] param_type = "bool" -> EncodeWord(IF value.b THEN 1 ELSE 0)

RECURSIVE EncodeItems(_, _)
EncodeItems(base_type, items) ==
    IF items = <<>> THEN <<>>
    ELSE EncodeStatic(base_type, items[1])
         \o EncodeItems(base_type, Tail(items))

\* the tail of a dynamic value: the length word, then the bytes padded with
\* zeros to whole words, or the items
EncodeTail(param_type, value) ==
    IF param_type = "bytes"
    THEN LET data == SubSeq(value.s, 3, Len(value.s))
         IN EncodeWord(Len(data) \div 2) \o data
            \o Zeros((64 - (Len(data) % 64)) % 64)
    ELSE EncodeWord(Len(value.items))
         \o EncodeItems(BaseType(param_type), value.items)

\* heads and tails of the values from position k on; tail_at is the byte
\* offset the next tail starts at
RECURSIVE EncodeFrom(_, _, _, _)
EncodeFrom(types, vals, k, tail_at) ==
    IF k > Len(types) THEN [head |-> <<>>, tail |-> <<>>]
    ELSE IF IsDynamic(types[k])
    THEN LET own == EncodeTail(types[k], vals[k])
             rest == EncodeFrom(types, vals, k + 1, tail_at + Len(own) \div 2)
         IN [head |-> EncodeWord(tail_at) \o rest.head,
             tail |-> own \o rest.tail]
    ELSE LET rest == EncodeFrom(types, vals, k + 1, tail_at)
         IN [head |-> EncodeStatic(types[k], vals[k]) \o rest.head,
             tail |-> rest.tail]

AbiEncode(types, vals) ==
    LET enc == EncodeFrom(types, vals, 1, 32 * Len(types))
    IN enc.head \o enc.tail

---------------------------------------------------------------------------
(* EthereumClient._decode_transaction_input *)

\* known_selectors of _decode_transaction_input
input_known_selectors ==
    <<"0","x","a","9","0","5","9","c","b","b">> :>
        [name |-> "transfer",
         signature |-> "transfer(address,uint256)",
         description |-> "ERC20 token transfer",
         param_types |-> <<"address", "uint256">>,
         param_names |-> <<"to", "value">>] @@
    <<"0","x","0","9","5","e","a","7","b","3">> :>
        [name |-> "approve",
         signature |-> "approve(address,uint256)",
         description |-> "ERC20 token approval",
         param_types |-> <<"address", "uint256">>,
         param_names |-> <<"spender", "value">>] @@
    <<"0","x","2","3","b","8","7","2","d","d">> :>
        [name |-> "transferFrom",
         signature |-> "transferFrom(address,address,uint256)",
         description |-> "ERC20 transferFrom",
         param_types |-> <<"address", "address", "uint256">>,
         param_names |-> <<"from", "to", "value">>] @@
    <<"0","x","7","0","a","0","8","2","3","1">> :>
        [name |-> "balanceOf",
         signature |-> "balanceOf(address)",
         description |-> "ERC20 balance query",
         param_types |-> <<"address">>,
         param_names |-> <<"account">>] @@
    <<"0","x","1","8","1","6","0","d","d","d">> :>
        [name |-> "totalSupply",
         signature |-> "totalSupply()",
         description |-> "ERC20 total supply query",
         param_types |-> <<>>,
         param_names |-> <<>>] @@
    <<"0","x","0","6","f","d","d","e","0","3">> :>
        [name |-> "name",
         signature |-> "name()",
         description |-> "ERC20 token name",
         param_types |-> <<>>,
         param_names |-> <<>>] @@
    <<"0","x","9","5","d","8","9","b","4","1">> :>
        [name |-> "symbol",
         signature |-> "symbol()",
         description |-> "ERC20 token symbol",
         param_types |-> <<>>,
         param_names |-> <<>>] @@
    <<"0","x","3","1","3","c","e","5","6","7">> :>
        [name |-> "decimals",
         signature |-> "decimals()",
         description |-> "ERC20 token decimals",
         param_types |-> <<>>,
         param_names |-> <<>>] @@
    <<"0","x","4","2","8","4","2","e","0","e">> :>
        [name |-> "safeTransferFrom",
         signature |-> "safeTransferFrom(address,address,uint256)",
         description |-> "ERC721 safe transfer",
         param_types |-> <<"address", "address", "uint256">>,
         param_names |-> <<"from", "to", "tokenId">>] @@
    <<"0","x","b","8","8","d","4","f","d","e">> :>
        [name |-> "safeTransferFrom",
         signature |-> "safeTransferFrom(address,address,uint256,bytes)",
         description |-> "ERC721 safe transfer with data",
         param_types |-> <<"address", "address", "uint256", "bytes">>,
         param_names |-> <<"from", "to", "tokenId", "data">>] @@
    <<"0","x","6","3","5","2","2","1","1","e">> :>
        [name |-> "ownerOf",
         signature |-> "ownerOf(uint256)",
         description |-> "ERC721 token owner query",
         param_types |-> <<"uint256">>,
         param_names |-> <<"tokenId">>] @@
    <<"0","x","0","8","1","8","1","2","f","c">> :>
        [name |-> "getApproved",
         signature |-> "getApproved(uint256)",
         description |-> "ERC721 get approved address",
         param_types |-> <<"uint256">>,
         param_names |-> <<"tokenId">>] @@
    <<"0","x","8","4","6","2","1","5","1","c">> :>
        [name |-> "tokenURI",
         signature |-> "tokenURI(uint256)",
         description |-> "ERC721 token URI",
         param_types |-> <<"uint256">>,
         param_names |-> <<"tokenId">>] @@
    <<"0","x","7","f","f","3","6","a","b","5">> :>
        [name |-> "swapExactETHForTokens",
         signature |-> "swapExactETHForTokens(uint256,address[],address,uint256)",
         description |-> "Uniswap V2: Swap ETH for tokens",
         param_types |-> <<"uint256", "address[]", "address", "uint256">>,
         param_names |-> <<"amountOutMin", "path", "to", "deadline">>] @@
    <<"0","x","3","8","e","d","1","7","3","9">> :>
        [name |-> "swapExactTokensForTokens",
         signature |-> "swapExactTokensForTokens(uint256,uint256,address[],address,uint256)",
         description |-> "Uniswap V2: Swap tokens for tokens",
         param_types |-> <<"uint256", "uint256", "address[]", "address", "uint256">>,
         param_names |-> <<"amountIn", "amountOutMin", "path", "to", "deadline">>]

\* {'raw': value, 'formatted': ...}
Amount(raw, formatted) ==
    [t |-> "amount", s |-> formatted, n |-> raw, b |-> FALSE, items |-> <<>>]

\* {'address': addr}
AddressEntry(addr) ==
    [t |-> "address_entry", s |-> addr.s, n |-> <<>>, b |-> FALSE,
     items |-> <<>>]

\* a text the model has no digits for: the digits Python prints for a float
\* whose rounding error reaches the last digit printed
FloatText == <<"float">>

\* s.rstrip('0')
RStripZeros(s) ==
    LET significant == {k \in 1..Len(s) : s[k] # "0"}
    IN IF significant = {} THEN <<>>
       ELSE SubSeq(s, 1, CHOOSE k \in significant :
                            \A j \in significant : j <= k)

\* (mutant) amounts are shown in units of 10^12
TokenLimbsMutant == 3 - 1

\* 10**18 is LimbBase ** 3
TokenLimbs == 3

\* _format_token_amount.  amount / 10**18 is a float: the quotient is exact
\* when amount is a multiple of 10**18 below 10**30; with a quotient below
\* 10**6 and a remainder that is a multiple of 10**12 the float's error is
\* far below the sixth decimal; an amount below 4 * 10**15 gives a fraction
\* whose error is below half a unit of the eighteenth decimal.
_format_token_amount(amount) ==
    IF amount = <<>> THEN <<"0">>
    ELSE IF Len(amount) > TokenLimbs
    THEN LET whole_units == SubSeq(amount, TokenLimbs + 1, Len(amount))
             rest == SubSeq(amount, 1, TokenLimbs)
         IN IF Norm(rest) = <<>> /\ Len(whole_units) <= 2
            THEN BigStr(whole_units)
            ELSE IF Norm(SubSeq(rest, 1, TokenLimbs - 1)) = <<>>
                    /\ Len(whole_units) = 1
            THEN BigStr(whole_units) \o <<".">> \o LimbDigits(rest[TokenLimbs])
            ELSE FloatText
    ELSE IF Len(amount) < TokenLimbs \/ amount[TokenLimbs] < 4000
    THEN LET padded == amount \o [k \in 1..(TokenLimbs - Len(amount)) |-> 0]
         IN <<"0", ".">> \o RStripZeros(LowerLimbs(padded))
    ELSE FloatText

\* f"param{len(param_names)}"
ParamName(k) == <<"param", k>>

\* while len(param_names) < len(param_types): param_names.append(...)
PadNames(names, types) ==
    names \o [k \in 1..(Len(types) - Len(names)) |->
                 ParamName(Len(names) + k - 1)]

\* the value _format_parameters stores under a name
FormatValue(value, param_type) ==
    IF param_type = "uint256" /\ value.t \in {"int", "bool"}
    THEN Amount(value.n, _format_token_amount(value.n))
    ELSE IF EndsWithBrackets(param_type) /\ value.t = "list"
    THEN LET present == SelectSeq(value.items, LAMBDA v : v # NoneValue)
         IN IF BaseType(param_type) = "address"
            THEN List([k \in 1..Len(present) |-> AddressEntry(present[k])])
            ELSE IF StartsWithUint(BaseType(param_type))
            THEN List([k \in 1..Len(present) |->
                          Amount(present[k].n,
                                 _format_token_amount(present[k].n))])
            ELSE value
    ELSE value

\* _format_parameters: zip(params, param_names, param_types)
_format_parameters(params, types, names) ==
    LET padded == PadNames(names, types)
    IN [k \in 1..Min(Len(params), Min(Len(padded), Len(types))) |->
           <<padded[k], FormatValue(params[k], types[k])>>]

\* the three texts copied from func_info
InfoOf(selector) ==
    LET func_info == input_known_selectors[selector]
    IN <<func_info.name, func_info.signature, func_info.description>>

\* _decode_transaction_input up to the call of _decode_parameters
DecodeTransactionInput ==
    /\ pc = "input"
    /\ IF input_data = <<>> \/ input_data = <<"0","x">>
          \/ input_data = <<"0","x","0">>
       THEN /\ call_result' = Dict({"type", "description"}, "transfer", <<>>,
                     <<"", "", "Simple ETH transfer with no additional data">>,
                     <<>>, <<>>, "", <<>>)
            /\ pc' = "input_returned"
            /\ UNCHANGED abi_vars
       ELSE IF tx_to = None
       THEN /\ call_result' = Dict({"type", "description", "bytecode"},
                     "contract_creation", <<>>,
                     <<"", "", "Contract creation transaction">>,
                     <<>>, <<>>, "", input_data)
            /\ pc' = "input_returned"
            /\ UNCHANGED abi_vars
       ELSE LET function_selector == PySlice(input_data, 0, 10)
                raw == PySlice(input_data, 10, Len(input_data))
            IN IF function_selector \in DOMAIN input_known_selectors
               THEN LET func_info == input_known_selectors[function_selector]
                    IN /\ call_result' =
                            Dict({"type", "function_selector", "name",
                                  "signature", "description"},
                                 "contract_interaction", function_selector,
                                 InfoOf(function_selector), <<>>, <<>>, "",
                                 <<>>)
                       /\ IF func_info.param_types # <<>>
                          THEN /\ parameters' = raw
                               /\ param_types' = func_info.param_types
                               /\ param_index' = 1
                               /\ offset' = 0
                               /\ decoded_params' = <<>>
                               /\ UNCHANGED values
                               /\ pc' = "decode"
                          ELSE /\ pc' = "input_returned"
                               /\ UNCHANGED abi_vars
               ELSE /\ call_result' =
                         Dict({"type", "function_selector", "description",
                               "raw_parameters"},
                              "contract_interaction", function_selector,
                              <<"", "", "Unknown function call">>, <<>>, raw,
                              "", <<>>)
                    /\ pc' = "input_returned"
                    /\ UNCHANGED abi_vars
    /\ UNCHANGED <<input_data, tx_to>>
    /\ UNCHANGED <<bytecode, i, selectors, storage_slots, slot_origin, result,
                   solidity_output>>
    /\ UNCHANGED adapter_vars
    /\ UNCHANGED decoder_vars
    /\ UNCHANGED <<server_vars, state_vars>>

\* result['parameters'] = self._format_parameters(...); return result
FormatParameters ==
    /\ pc = "decoded"
    /\ call_result' =
          [call_result EXCEPT
             !.keys = @ \cup {"parameters"},
             !.parameters = _format_parameters(decoded_params, param_types,
                 input_known_selectors[call_result.function_selector]
                     .param_names)]
    /\ pc' = "input_returned"
    /\ UNCHANGED <<input_data, tx_to>>
    /\ UNCHANGED abi_vars
    /\ UNCHANGED <<bytecode, i, selectors, storage_slots, slot_origin, result,
                   solidity_output>>
    /\ UNCHANGED adapter_vars
    /\ UNCHANGED decoder_vars
    /\ UNCHANGED <<server_vars, state_vars>>

\* except Exception as e: the raw parameters and the error's text
CatchDecodingError ==
    /\ pc = "exhausted"
    /\ call_result' =
          [call_result EXCEPT
             !.keys = @ \cup {"raw_parameters", "decoding_error"},
             !.raw_parameters = parameters,
             !.decoding_error = "MemoryError"]
    /\ pc' = "input_returned"
    /\ UNCHANGED <<input_data, tx_to>>
    /\ UNCHANGED abi_vars
    /\ UNCHANGED <<bytecode, i, selectors, storage_slots, slot_origin, result,
                   solidity_output>>
    /\ UNCHANGED adapter_vars
    /\ UNCHANGED decoder_vars
    /\ UNCHANGED <<server_vars, state_vars>>

---------------------------------------------------------------------------
(* The decoder on encoded values *)

MaxParams == 2

\* the types of the round trip
RoundTripTypes == {"address", "uint256", "bool", "bytes", "address[]",
                   "uint256[]"}

AddressValue(n) == Str(<<"0","x">> \o IntToHex(n, 40))

\* the values of each type: arrays of length 0, 1 and 2, bytes of length 0,
\* 1 and 33
ValuesOf(param_type) ==
    CASE param_type = "address" -> {AddressValue(1), AddressValue(35)}
      [] param_type = "uint256" -> {Int_(Big(0)), Int_(Big(65541)),
                                    Int_(<<0, 0, 0, 1>>)}
      [] param_type = "bool" -> {Bool(TRUE), Bool(FALSE)}
      [] param_type = "bytes" ->
            {Str(<<"0","x">>), Str(<<"0","x","0","c">>),
             Str(<<"0","x">> \o Fill(33))}
      [] param_type = "address[]" ->
            {List(<<>>), List(<<AddressValue(1)>>),
             List(<<AddressValue(35), AddressValue(1)>>)}
      [] param_type = "uint256[]" ->
            {List(<<>>), List(<<Int_(Big(7))>>),
             List(<<Int_(Big(7)), Int_(Big(0))>>)}

TypeLists == UNION {[1..n -> RoundTripTypes] : n \in 1..MaxParams}

InitAbi ==
    /\ param_types \in TypeLists
    /\ values \in [1..Len(param_types) ->
                     UNION {ValuesOf(ty) : ty \in RoundTripTypes}]
    /\ \A k \in 1..Len(param_types) : values[k] \in ValuesOf(param_types[k])
    /\ parameters = AbiEncode(param_types, values)
    /\ pc = "decode"
    /\ param_index = 1
    /\ offset = 0
    /\ decoded_params = <<>>
    /\ bytecode = <<>>
    /\ FallbackLocals
    /\ AdapterIdle
    /\ CallIdle
    /\ DecoderIdle
    /\ ServerIdle

NextAbi ==
    \/ DecodeParam
    \/ DecodeReturn

SpecAbi == InitAbi /\ [][NextAbi]_vars

---------------------------------------------------------------------------
(* InputDecoder *)

\* {"type": ..., "name": ...}
InputDef(type, name) == [type |-> type, name |-> name]

\* InputDecoder.__init__: self.function_selectors
InitialSelectors ==
    <<"0","x","a","9","0","5","9","c","b","b">> :>
        [name |-> "transfer",
         inputs |-> <<InputDef("address", "recipient"),
                      InputDef("uint256", "amount")>>] @@
    <<"0","x","6","a","7","6","1","2","0","2">> :>
        [name |-> "execTransaction",
         inputs |-> <<InputDef("address", "to"),
                      InputDef("uint256", "value"),
                      InputDef("bytes", "data"),
                      InputDef("uint8", "operation"),
                      InputDef("uint256", "safeTxGas"),
                      InputDef("uint256", "baseGas"),
                      InputDef("uint256", "gasPrice"),
                      InputDef("address", "gasToken"),
                      InputDef("address", "refundReceiver"),
                      InputDef("bytes", "signatures")>>]

\* bytes.fromhex(s) of a string without blanks; the bytes are kept as their
\* lower-case hex digits, which is what .hex() prints
FromHex(s) == Lower(s)

\* data[a:b] on bytes
BytesSlice(data, a, b) == PySlice(data, 2 * a, 2 * b)

\* data[-n:] on bytes
LastBytes(data, n) ==
    SubSeq(data, IF Len(data) > 2 * n THEN Len(data) - 2 * n + 1 ELSE 1,
           Len(data))

\* result[param_name] = value: a new key goes last, a key the dictionary
\* holds keeps its place
Put(dict, key, value) ==
    IF \E k \in 1..Len(dict) : dict[k][1] = key
    THEN [k \in 1..Len(dict) |->
            IF dict[k][1] = key THEN <<key, value>> ELSE dict[k]]
    ELSE Append(dict, <<key, value>>)

\* f"Unsupported type: {param_type}"
Unsupported(param_type) == Str(<<"Unsupported type: ", param_type>>)

\* InputDecoder._decode_parameters after bytes.fromhex: the for loop from
\* inputs[k] on; offset is in bytes
RECURSIVE DecodeInputs(_, _, _, _, _)
DecodeInputs(parameter_data, inputs, k, off, acc) ==
    IF k > Len(inputs) THEN acc
    ELSE LET param_type == inputs[k].type
             param_name == inputs[k].name
             word == BytesSlice(parameter_data, off, off + 32)
         IN IF param_type = "address"
            THEN DecodeInputs(parameter_data, inputs, k + 1, off + 32,
                     Put(acc, param_name,
                         Str(<<"0","x">> \o LastBytes(word, 20))))
            ELSE IF param_type = "uint256" \/ param_type = "uint8"
            THEN DecodeInputs(parameter_data, inputs, k + 1, off + 32,
                     Put(acc, param_name, Int_(BigHex(word))))
            ELSE IF param_type = "bytes"
            THEN LET data_offset == AsIndex(BigHex(word))
                     length == AsIndex(BigHex(BytesSlice(parameter_data,
                                   data_offset, data_offset + 32)))
                 IN DecodeInputs(parameter_data, inputs, k + 1, off + 32,
                        Put(acc, param_name,
                            Str(<<"0","x">>
                                \o BytesSlice(parameter_data,
                                       data_offset + 32,
                                       data_offset + 32 + length))))
            ELSE DecodeInputs(parameter_data, inputs, k + 1, off,
                     Put(acc, param_name, Unsupported(param_type)))

\* a dictionary of InputDecoder: the keys it holds and, for each key, the
\* value ('params' as <<name, value>> pairs; 'nested_call' as a sequence of
\* no or one dictionary)
Call(keys, function, params, function_selector, raw, error, raw_input) ==
    [keys |-> keys, function |-> function, params |-> params,
     function_selector |-> function_selector, raw_parameters |-> raw,
     error |-> error, raw_input |-> raw_input, nested_call |-> <<>>]

NoCall == Call({}, "", <<>>, <<>>, <<>>, "", <<>>)

\* (mutant) an unknown selector is reported as an error
UnknownCallMutant(key, raw) ==
    Call({"function_selector", "raw_parameters", "error"}, "", <<>>, key, raw,
         "Unknown function selector", <<>>)

\* if not function_def: the selector and the parameters as they are
UnknownCall(key, raw) ==
    Call({"function_selector", "raw_parameters"}, "", <<>>, key, raw, "",
         <<>>)

\* InputDecoder._decode_function_call
_decode_function_call(registry, call_data) ==
    LET stripped == StripPrefix(call_data)
        function_selector == PySlice(stripped, 0, 8)
        raw == PySlice(stripped, 8, Len(stripped))
        key == <<"0","x">> \o function_selector
    IN IF key \notin DOMAIN registry
       THEN UnknownCall(key, raw)
       ELSE IF FromHexRaises(raw)
       THEN Call({"function", "error", "raw_parameters"}, registry[key].name,
                 <<>>, <<>>, raw, "Parameter decoding failed", <<>>)
       ELSE Call({"function", "params"}, registry[key].name,
                 DecodeInputs(FromHex(raw), registry[key].inputs, 1, 0, <<>>),
                 <<>>, <<>>, "", <<>>)

\* dict.get(key) on the <<name, value>> pairs (None without the key)
Get(dict, key) ==
    IF \E k \in 1..Len(dict) : dict[k][1] = key
    THEN dict[CHOOSE k \in 1..Len(dict) : dict[k][1] = key][2]
    ELSE NoneValue

\* the truth value of a decoded parameter
Truthy(value) ==
    CASE value.t = "None" -> FALSE
      [] value.t = "str" -> value.s # <<>>
      [] value.t = "int" -> value.n # <<>>
      [] OTHER -> TRUE

\* a contract_source: None, the JSON text of an ABI, a text that is neither
\* JSON nor Solidity, or Solidity source
Source(kind, items) == [kind |-> kind, items |-> items]

\* an item of an ABI; "malformed" is a JSON value that is not an object
AbiItem(type, name, inputs) == [type |-> type, name |-> name, inputs |-> inputs]

\* encode_hex(function_signature_to_4byte_selector(signature)): the first
\* four bytes of keccak256 of f"{name}({','.join(input_types)})"
Selector4(name, input_types) ==
    CASE <<name, input_types>> = <<"transfer", <<"address", "uint256">>>> ->
            <<"0","x","a","9","0","5","9","c","b","b">>
      [] <<name, input_types>> = <<"approve", <<"address", "uint256">>>> ->
            <<"0","x","0","9","5","e","a","7","b","3">>
      [] <<name, input_types>> = <<"balanceOf", <<"address">>>> ->
            <<"0","x","7","0","a","0","8","2","3","1">>
      [] <<name, input_types>> = <<"totalSupply", <<>>>> ->
            <<"0","x","1","8","1","6","0","d","d","d">>

\* the selector of a function item
SelectorOfItem(item) ==
    Selector4(item.name, [k \in 1..Len(item.inputs) |-> item.inputs[k].type])

\* (mutant) the registry is rebuilt from the function added
ExtendMutant(registry, key, def) == [s \in {key} |-> def]

\* self.function_selectors[selector_hex] = {...}
Extend(registry, key, def) ==
    [s \in DOMAIN registry \cup {key} |->
        IF s = key THEN def ELSE registry[s]]

\* the dictionary decode_input returns from an except clause
ErrorResult(error, raw_input) ==
    Call({"error", "raw_input", "function_selector"}, "", <<>>,
         PySlice(raw_input, 2, 10), <<>>, error, raw_input)

\* decode_input up to the parsing of contract_source
DecodeInput ==
    /\ pc = "decode_input"
    /\ LET prefixed == IF PySlice(decoder_input, 0, 2) = <<"0","x">>
                       THEN decoder_input
                       ELSE <<"0","x">> \o decoder_input
       IN /\ decoder_input' = prefixed
          /\ IF Len(prefixed) < 10
             THEN /\ decoded' = Call({"error"}, "", <<>>, <<>>, <<>>,
                                     "Invalid input data", <<>>)
                  /\ pc' = "decode_returned"
             ELSE /\ UNCHANGED decoded
                  /\ pc' = IF contract_source.kind # "None"
                           THEN "parse_source" ELSE "decode_call"
    /\ UNCHANGED <<function_selectors, contract_source, abi, abi_index, calls,
                   selectors_before, snapshot>>
    /\ UNCHANGED <<bytecode, i, selectors, storage_slots, slot_origin, result,
                   solidity_output>>
    /\ UNCHANGED <<adapter_vars, abi_vars, call_vars>>
    /\ UNCHANGED <<server_vars, state_vars>>

\* _parse_contract_source up to _process_abi: json.loads, and for a text
\* that is not JSON but holds "contract" and "function", _compile_solidity,
\* which gives an ABI, gives an empty list or raises
ParseContractSource ==
    /\ pc = "parse_source"
    /\ \/ /\ contract_source.kind = "json"
          /\ abi' = contract_source.items
          /\ abi_index' = 1
          /\ pc' = "process_abi"
          /\ UNCHANGED decoded
       \/ /\ contract_source.kind = "solidity"
          /\ \E compiled \in {"abi", "empty", "raises"} :
                IF compiled = "abi"
                THEN /\ abi' = contract_source.items
                     /\ abi_index' = 1
                     /\ pc' = "process_abi"
                     /\ UNCHANGED decoded
                ELSE /\ decoded' = ErrorResult(
                            "Failed to parse contract source", decoder_input)
                     /\ pc' = "decode_returned"
                     /\ UNCHANGED <<abi, abi_index>>
       \/ /\ contract_source.kind = "text"
          /\ decoded' = ErrorResult("Failed to parse contract source",
                                    decoder_input)
          /\ pc' = "decode_returned"
          /\ UNCHANGED <<abi, abi_index>>
    /\ UNCHANGED <<function_selectors, decoder_input, contract_source, calls,
                   selectors_before, snapshot>>
    /\ UNCHANGED <<bytecode, i, selectors, storage_slots, slot_origin, result,
                   solidity_output>>
    /\ UNCHANGED <<adapter_vars, abi_vars, call_vars>>
    /\ UNCHANGED <<server_vars, state_vars>>

\* _process_abi: one pass of for item in abi.  An item that is not an object
\* has no get and the AttributeError goes up to decode_input.
ProcessAbiItem ==
    /\ pc = "process_abi"
    /\ abi_index <= Len(abi)
    /\ LET item == abi[abi_index]
       IN IF item.type = "malformed"
          THEN /\ decoded' = ErrorResult("Failed to parse contract source",
                                         decoder_input)
               /\ pc' = "decode_returned"
               /\ UNCHANGED <<function_selectors, abi_index>>
          ELSE /\ function_selectors' =
                     IF item.type = "function"
                     THEN Extend(function_selectors, SelectorOfItem(item),
                                 [name |-> item.name, inputs |-> item.inputs])
                     ELSE function_selectors
               /\ abi_index' = abi_index + 1
               /\ UNCHANGED <<decoded, pc>>
    /\ UNCHANGED <<decoder_input, contract_source, abi, calls,
                   selectors_before, snapshot>>
    /\ UNCHANGED <<bytecode, i, selectors, storage_slots, slot_origin, result,
                   solidity_output>>
    /\ UNCHANGED <<adapter_vars, abi_vars, call_vars>>
    /\ UNCHANGED <<server_vars, state_vars>>

\* _process_abi and _parse_contract_source return
ProcessAbiReturn ==
    /\ pc = "process_abi"
    /\ abi_index > Len(abi)
    /\ pc' = "decode_call"
    /\ UNCHANGED decoder_vars
    /\ UNCHANGED <<bytecode, i, selectors, storage_slots, slot_origin, result,
                   solidity_output>>
    /\ UNCHANGED <<adapter_vars, abi_vars, call_vars>>
    /\ UNCHANGED <<server_vars, state_vars>>

\* (mutant) the nested call is decoded the way the top-level call is
RECURSIVE NestedCallMutant(_, _)
NestedCallMutant(registry, nested_data) ==
    LET inner == _decode_function_call(registry, nested_data.s)
        data == Get(inner.params, "data")
    IN IF inner.function = "execTransaction" /\ Truthy(data)
          /\ data # Str(<<"0","x">>)
       THEN [inner EXCEPT !.keys = @ \cup {"nested_call"},
                          !.nested_call =
                              <<NestedCallMutant(registry, data)>>]
       ELSE inner

\* self._decode_function_call(nested_data)
NestedCall(registry, nested_data) ==
    _decode_function_call(registry, nested_data.s)

\* decode_input from the try on: the call is decoded, and the data of an
\* execTransaction once more
DecodeFunctionCall ==
    /\ pc = "decode_call"
    /\ LET top == _decode_function_call(function_selectors, decoder_input)
           nested_data == Get(top.params, "data")
       IN decoded' =
            IF top.function = "execTransaction" /\ Truthy(nested_data)
               /\ nested_data # Str(<<"0","x">>)
            THEN IF nested_data.t # "str"
                 THEN ErrorResult("Failed to decode input", decoder_input)
                 ELSE [top EXCEPT
                         !.keys = @ \cup {"nested_call"},
                         !.nested_call =
                             <<NestedCall(function_selectors, nested_data)>>]
            ELSE top
    /\ pc' = "decode_returned"
    /\ UNCHANGED <<function_selectors, decoder_input, contract_source, abi,
                   abi_index, calls, selectors_before, snapshot>>
    /\ UNCHANGED <<bytecode, i, selectors, storage_slots, slot_origin, result,
                   solidity_output>>
    /\ UNCHANGED <<adapter_vars, abi_vars, call_vars>>
    /\ UNCHANGED <<server_vars, state_vars>>

---------------------------------------------------------------------------
(* _decode_transaction_input on call data *)

\* a blob cut short: in front of the first word, inside it, after it, inside
\* and in front of the last word; and the whole blob
Cuts(blob) ==
    {SubSeq(blob, 1, n) :
        n \in {0, 32, 64, Len(blob) - 64, Len(blob) - 1, Len(blob)}
              \cap 0..Len(blob)}

\* the amounts of the calls: 0, 1500, 10^18, 2.5 * 10^18
CallAmounts == {<<>>, <<1500>>, <<0, 0, 0, 1>>, <<0, 0, 500000, 2>>}

\* selectors the table holds: transfer, balanceOf, totalSupply,
\* swapExactETHForTokens
TransferSelector == <<"0","x","a","9","0","5","9","c","b","b">>
BalanceOfSelector == <<"0","x","7","0","a","0","8","2","3","1">>
TotalSupplySelector == <<"0","x","1","8","1","6","0","d","d","d">>
SwapSelector == <<"0","x","7","f","f","3","6","a","b","5">>

\* selectors the table does not hold (the table's keys are lower-case), and
\* a selector cut short
UnknownSelectors == {<<"0","x","1","2","3","4","5","6","7","8">>,
                     <<"0","x","A","9","0","5","9","C","B","B">>,
                     <<"0","x","a","9","0","5">>}

\* an address[] whose length word is 2^255
HugeArray == EncodeWord(32) \o <<"8">> \o Zeros(63)

CallInputs ==
    {<<>>, <<"0","x">>, <<"0","x","0">>}
    \cup {TransferSelector \o params :
            params \in UNION {Cuts(AbiEncode(<<"address", "uint256">>,
                                       <<AddressValue(1), Int_(amount)>>)) :
                              amount \in CallAmounts}}
    \cup {BalanceOfSelector \o params :
            params \in Cuts(AbiEncode(<<"address">>, <<AddressValue(35)>>))}
    \cup {TotalSupplySelector \o params : params \in {<<>>, EncodeWord(1)}}
    \cup {SwapSelector \o params :
            params \in
              Cuts(AbiEncode(<<"uint256", "address[]", "address", "uint256">>,
                     <<Int_(<<0, 0, 0, 1>>),
                       List(<<AddressValue(1), AddressValue(35)>>),
                       AddressValue(1), Int_(Big(65541))>>))
              \cup {EncodeWord(1) \o EncodeWord(64)
                      \o SubSeq(HugeArray, 65, 128)}}
    \cup {selector \o params :
            selector \in UnknownSelectors,
            params \in {<<>>, <<"0">>, <<"z","z">>, EncodeWord(1)}}

InitCall ==
    /\ input_data \in CallInputs
    /\ tx_to \in {None, "0x0000000000000000000000000000000000000023"}
    /\ call_result = NoDict
    /\ pc = "input"
    /\ bytecode = <<>>
    /\ FallbackLocals
    /\ AdapterIdle
    /\ AbiIdle
    /\ DecoderIdle
    /\ ServerIdle

NextCall ==
    \/ DecodeTransactionInput
    \/ DecodeParam
    \/ DecodeReturn
    \/ FormatParameters
    \/ CatchDecodingError

SpecCall == InitCall /\ [][NextCall]_vars

---------------------------------------------------------------------------
(* decode_input calls on one InputDecoder, and a concurrent reader *)

MaxCalls == 2

\* transfer(0x00...01, 10^18) without '0x'
TransferData ==
    <<"a","9","0","5","9","c","b","b">>
    \o AbiEncode(<<"address", "uint256">>,
                 <<AddressValue(1), Int_(<<0, 0, 0, 1>>)>>)

ExecTypes == <<"address", "uint256", "bytes", "uint8", "uint256", "uint256",
               "uint256", "address", "address", "bytes">>

\* execTransaction(0x00...23, 0, data, 0, 0, 0, 0, 0x0, 0x0, "") without '0x'
ExecData(data) ==
    <<"6","a","7","6","1","2","0","2">>
    \o AbiEncode(ExecTypes,
                 <<AddressValue(35), Int_(<<>>), Str(<<"0","x">> \o data),
                   Int_(<<>>), Int_(<<>>), Int_(<<>>), Int_(<<>>),
                   AddressValue(0), AddressValue(0), Str(<<"0","x">>)>>)

ApproveData ==
    <<"0","9","5","e","a","7","b","3">>
    \o AbiEncode(<<"address", "uint256">>,
                 <<AddressValue(35), Int_(<<1500>>)>>)

\* call data: known and unknown selectors, with and without '0x', cut
\* short, with an odd number of digits and with other characters; an
\* execTransaction without data, with a transfer, with two digits and with
\* an execTransaction of a transfer as its data
DecoderInputs ==
    {<<"0","x">> \o TransferData, TransferData,
     <<"0","x">> \o SubSeq(TransferData, 1, Len(TransferData) - 1),
     <<"0","x">> \o SubSeq(TransferData, 1, 8 + 64),
     <<"0","x">> \o TransferData \o <<"z","z">>,
     <<"0","x">> \o ApproveData,
     <<"0","x">>, <<"a","9","0","5">>,
     <<"0","x","A","9","0","5","9","C","B","B">> \o EncodeWord(1),
     <<"0","x">> \o ExecData(<<>>),
     <<"0","x">> \o ExecData(TransferData),
     <<"0","x">> \o ExecData(<<"a","b">>),
     <<"0","x">> \o ExecData(ExecData(TransferData)),
     <<"0","x">> \o SubSeq(ExecData(TransferData), 1, 8 + 3 * 64)}
    \cup {<<"0","x","1","2","3","4","5","6","7","8">> \o params :
            params \in {<<>>, <<"0">>, <<"z","z">>, EncodeWord(1)}}

\* approve and balanceOf, with an event between them
TokenAbi ==
    <<AbiItem("function", "approve",
              <<InputDef("address", "spender"), InputDef("uint256", "amount")>>),
      AbiItem("event", "Approval", <<>>),
      AbiItem("function", "balanceOf", <<InputDef("address", "account")>>)>>

\* transfer with other parameter names: a selector the registry holds
RenamingAbi ==
    <<AbiItem("function", "transfer",
              <<InputDef("address", "to"), InputDef("uint256", "value")>>)>>

\* an ABI whose second item is not an object
BrokenAbi ==
    <<AbiItem("function", "totalSupply", <<>>),
      AbiItem("malformed", "", <<>>),
      AbiItem("function", "balanceOf", <<InputDef("address", "account")>>)>>

NoSource == Source("None", <<>>)

Sources == {NoSource, Source("json", TokenAbi), Source("json", RenamingAbi),
            Source("json", BrokenAbi), Source("text", <<>>),
            Source("solidity", TokenAbi)}

\* InputDecoder() and the first decode_input call
InitDecoder ==
    /\ function_selectors = InitialSelectors
    /\ decoder_input \in DecoderInputs
    /\ contract_source \in Sources
    /\ abi = <<>>
    /\ abi_index = 0
    /\ decoded = NoCall
    /\ calls = 1
    /\ selectors_before = DOMAIN InitialSelectors
    /\ snapshot = [seen |-> {}, adding |-> {}]
    /\ pc = "decode_input"
    /\ bytecode = <<>>
    /\ FallbackLocals
    /\ AdapterIdle
    /\ AbiIdle
    /\ CallIdle
    /\ ServerIdle

\* the next decode_input call on the same InputDecoder
NextDecodeInput ==
    /\ pc = "decode_returned"
    /\ calls < MaxCalls
    /\ calls' = calls + 1
    /\ decoder_input' \in DecoderInputs
    /\ contract_source' \in Sources
    /\ abi' = <<>>
    /\ abi_index' = 0
    /\ decoded' = NoCall
    /\ selectors_before' = DOMAIN function_selectors
    /\ snapshot' = [seen |-> {}, adding |-> {}]
    /\ pc' = "decode_input"
    /\ UNCHANGED function_selectors
    /\ UNCHANGED <<bytecode, i, selectors, storage_slots, slot_origin, result,
                   solidity_output>>
    /\ UNCHANGED <<adapter_vars, abi_vars, call_vars>>
    /\ UNCHANGED <<server_vars, state_vars>>

\* the selectors the ABI being processed adds to the registry
Adding ==
    {SelectorOfItem(abi[k]) : k \in {j \in 1..Len(abi) :
                                       abi[j].type = "function"}}
    \ selectors_before

\* another caller, in another thread, looks selectors up while _process_abi
\* is between two items
ReaderLookup ==
    /\ pc = "process_abi"
    /\ snapshot' = [seen |-> DOMAIN function_selectors \cap Adding,
                    adding |-> Adding]
    /\ UNCHANGED <<function_selectors, decoder_input, contract_source, abi,
                   abi_index, decoded, calls, selectors_before>>
    /\ UNCHANGED <<bytecode, pc, i, selectors, storage_slots, slot_origin,
                   result, solidity_output>>
    /\ UNCHANGED <<adapter_vars, abi_vars, call_vars>>
    /\ UNCHANGED <<server_vars, state_vars>>

NextDecoder ==
    \/ DecodeInput
    \/ ParseContractSource
    \/ ProcessAbiItem
    \/ ProcessAbiReturn
    \/ DecodeFunctionCall
    \/ NextDecodeInput
    \/ ReaderLookup

SpecDecoder == InitDecoder /\ [][NextDecoder]_vars

---------------------------------------------------------------------------
(* _decode_parameters on blobs that are cut short or point past their end *)

InitTruncated ==
    /\ param_types \in TypeLists
    /\ values \in [1..Len(param_types) ->
                     UNION {ValuesOf(ty) : ty \in RoundTripTypes}]
    /\ \A k \in 1..Len(param_types) : values[k] \in ValuesOf(param_types[k])
    /\ parameters \in Cuts(AbiEncode(param_types, values))
                         \cup {HugeArray, EncodeWord(64)}
    /\ pc = "decode"
    /\ param_index = 1
    /\ offset = 0
    /\ decoded_params = <<>>
    /\ bytecode = <<>>
    /\ FallbackLocals
    /\ AdapterIdle
    /\ CallIdle
    /\ DecoderIdle
    /\ ServerIdle

SpecTruncated == InitTruncated /\ [][NextAbi]_vars

---------------------------------------------------------------------------
(* Both call decoders *)

InitCalls == InitCall \/ InitDecoder

NextCalls == NextCall \/ NextDecoder

SpecCalls == InitCalls /\ [][NextCalls]_vars

---------------------------------------------------------------------------
(* AnalysisState and StateStorage *)

\* an AnalysisState, and the dictionary to_dict makes of it: the hash, the
\* status, the result shown to the user and the number of reasons
AState(tx, status, res, reason) ==
    [tx |-> tx, status |-> status, result |-> res, reason |-> reason]

\* None, where an AnalysisState is expected
NoAnalysis == AState("", None, "", 0)

\* (mutant) the empty string passes as a status
ValidStatusMutant(value) == value \in {"doing", "done", ""}

\* value in ["doing", "done"]
ValidStatus(value) == value \in {"doing", "done"}

\* AnalysisState(): self._status = "doing"
NewAnalysis == AState("", "doing", "", 0)

\* a state file: not there, opened for writing and not yet (wholly) written,
\* or holding the JSON of a dictionary
Missing == [kind |-> "missing", data |-> NoAnalysis]
Truncated == [kind |-> "truncated", data |-> NoAnalysis]
Stored(data) == [kind |-> "json", data |-> data]

\* StateStorage.get: None if the file does not exist, and None from the
\* except clause if json.load or from_dict (the status setter) raises
StateStorageGet(file) ==
    IF file.kind = "missing" THEN NoAnalysis
    ELSE IF file.kind = "truncated" THEN NoAnalysis
    ELSE IF ~ValidStatus(file.data.status) THEN NoAnalysis
    ELSE file.data

\* the object, whether the last operation on it raised ValueError, the
\* status that operation assigned, and the number of operations
Object(obj, raised, assigned, ops) ==
    [obj |-> obj, raised |-> raised, assigned |-> assigned, ops |-> ops]

MaxOps == 3

Hashes == {"0xaa", "0xbb"}

\* the statuses assigned and found in files: the two valid ones, others,
\* and None for a dictionary without the key
StatusValues == {"doing", "done", "DONE", "", None}

\* analysis.status = value
SetStatus ==
    /\ pc = "state"
    /\ analysis.ops < MaxOps
    /\ \E value \in StatusValues :
          analysis' =
            IF ValidStatus(value)
            THEN Object([analysis.obj EXCEPT !.status = value], FALSE, value,
                        analysis.ops + 1)
            ELSE Object(analysis.obj, TRUE, value, analysis.ops + 1)
    /\ UNCHANGED <<files, loaded>>
    /\ UNCHANGED <<running_tasks, task_lock, saved, threads, requests, poller>>
    /\ UNCHANGED <<bytecode, pc, i, selectors, storage_slots, slot_origin,
                   result, solidity_output>>
    /\ UNCHANGED <<adapter_vars, abi_vars, call_vars, decoder_vars>>

\* analysis.from_dict(data): tx is assigned before the status, the other
\* fields after it
FromDict ==
    /\ pc = "state"
    /\ analysis.ops < MaxOps
    /\ \E tx \in Hashes, value \in StatusValues, res \in {"", "final"} :
          analysis' =
            IF ValidStatus(value)
            THEN Object(AState(tx, value, res, 0), FALSE, value,
                        analysis.ops + 1)
            ELSE Object([analysis.obj EXCEPT !.tx = tx], TRUE, value,
                        analysis.ops + 1)
    /\ UNCHANGED <<files, loaded>>
    /\ UNCHANGED <<running_tasks, task_lock, saved, threads, requests, poller>>
    /\ UNCHANGED <<bytecode, pc, i, selectors, storage_slots, slot_origin,
                   result, solidity_output>>
    /\ UNCHANGED <<adapter_vars, abi_vars, call_vars, decoder_vars>>

\* a state file as another program or an earlier version left it
ForeignFile ==
    /\ pc = "state"
    /\ \E tx \in Hashes, value \in StatusValues :
          /\ files[tx] = Missing
          /\ files' = [files EXCEPT ![tx] = Stored(AState(tx, value, "", 0))]
    /\ UNCHANGED <<analysis, loaded>>
    /\ UNCHANGED <<running_tasks, task_lock, saved, threads, requests, poller>>
    /\ UNCHANGED <<bytecode, pc, i, selectors, storage_slots, slot_origin,
                   result, solidity_output>>
    /\ UNCHANGED <<adapter_vars, abi_vars, call_vars, decoder_vars>>

\* state_storage.save(analysis), with no other caller at work
SaveState ==
    /\ pc = "state"
    /\ analysis.obj.tx # ""
    /\ files' = [files EXCEPT ![analysis.obj.tx] = Stored(analysis.obj)]
    /\ UNCHANGED <<analysis, loaded>>
    /\ UNCHANGED <<running_tasks, task_lock, saved, threads, requests, poller>>
    /\ UNCHANGED <<bytecode, pc, i, selectors, storage_slots, slot_origin,
                   result, solidity_output>>
    /\ UNCHANGED <<adapter_vars, abi_vars, call_vars, decoder_vars>>

\* state_storage.get(tx)
GetState ==
    /\ pc = "state"
    /\ \E tx \in Hashes :
          loaded' = [file |-> files[tx], state |-> StateStorageGet(files[tx])]
    /\ UNCHANGED <<analysis, files>>
    /\ UNCHANGED <<running_tasks, task_lock, saved, threads, requests, poller>>
    /\ UNCHANGED <<bytecode, pc, i, selectors, storage_slots, slot_origin,
                   result, solidity_output>>
    /\ UNCHANGED <<adapter_vars, abi_vars, call_vars, decoder_vars>>

InitState ==
    /\ pc = "state"
    /\ analysis = Object(NewAnalysis, FALSE, "doing", 0)
    /\ files = [tx \in Hashes |-> Missing]
    /\ loaded = [file |-> Missing, state |-> NoAnalysis]
    /\ running_tasks = <<>>
    /\ task_lock = 0
    /\ saved = <<>>
    /\ threads = <<>>
    /\ requests = <<>>
    /\ poller = <<>>
    /\ bytecode = <<>>
    /\ FallbackLocals
    /\ AdapterIdle
    /\ AbiIdle
    /\ CallIdle
    /\ DecoderIdle

NextState ==
    \/ SetStatus
    \/ FromDict
    \/ ForeignFile
    \/ SaveState
    \/ GetState

SpecState == InitState /\ [][NextState]_vars

---------------------------------------------------------------------------
(* The server: /sign requests, analysis threads, /analysis-stream *)

\* the number of /sign requests; a request starts at most one thread, and
\* thread k is the one started by request k
MaxRequests == 2

RequestIds == 1..MaxRequests

\* the hashes the requests are about
Txs == {"0xaa", "0xbb"}

\* the results written on the way
SimulationResult == "simulation transaction..."
LlmResult == "llm analysis contract..."
FinalResult == "risk-alert"

\* a request or a thread that is not there (yet)
NoTask == [pc |-> "none", tx |-> "", obj |-> NoAnalysis]

Task(at, tx, obj) == [pc |-> at, tx |-> tx, obj |-> obj]

\* thread.is_alive(): started, and run() has not returned to the interpreter
IsAlive(k) == threads[k].pc \notin {"none", "ended"}

\* open(file_path, 'w'): the file exists and is empty
OpenForWriting(tx) == files' = [files EXCEPT ![tx] = Truncated]

\* json.dump(state.to_dict(), f) and the close of the with block
Dump(obj) ==
    /\ files' = [files EXCEPT ![obj.tx] = Stored(obj)]
    /\ saved' = [saved EXCEPT ![obj.tx] = @ \cup {obj}]

\* sign() up to the save: the request is valid, the transaction is found,
\* and the AnalysisState is built with status 'doing'
Sign(r) ==
    /\ pc = "server"
    /\ requests[r] = NoTask
    /\ \E tx \in Txs :
          requests' = [requests EXCEPT
                         ![r] = Task("save", tx, AState(tx, "doing", "", 0))]
    /\ UNCHANGED <<running_tasks, task_lock, files, saved, threads, poller>>
    /\ UNCHANGED <<bytecode, pc, i, selectors, storage_slots, slot_origin,
                   result, solidity_output>>
    /\ UNCHANGED <<adapter_vars, abi_vars, call_vars, decoder_vars, state_vars>>

\* state_storage.save(analysis) in sign(), the open
SignOpen(r) ==
    /\ pc = "server"
    /\ requests[r].pc = "save"
    /\ OpenForWriting(requests[r].tx)
    /\ requests' = [requests EXCEPT ![r].pc = "dump"]
    /\ UNCHANGED <<running_tasks, task_lock, saved, threads, poller>>
    /\ UNCHANGED <<bytecode, pc, i, selectors, storage_slots, slot_origin,
                   result, solidity_output>>
    /\ UNCHANGED <<adapter_vars, abi_vars, call_vars, decoder_vars, state_vars>>

\* state_storage.save(analysis) in sign(), the dump; then
\* analysis_thread_handler(tx) is called
SignDump(r) ==
    /\ pc = "server"
    /\ requests[r].pc = "dump"
    /\ Dump(requests[r].obj)
    /\ requests' = [requests EXCEPT ![r].pc = "handler"]
    /\ UNCHANGED <<running_tasks, task_lock, threads, poller>>
    /\ UNCHANGED <<bytecode, pc, i, selectors, storage_slots, slot_origin,
                   result, solidity_output>>
    /\ UNCHANGED <<adapter_vars, abi_vars, call_vars, decoder_vars, state_vars>>

\* analysis_thread_handler: with task_lock, and the look into running_tasks
HandlerEnter(r) ==
    /\ pc = "server"
    /\ requests[r].pc = "handler"
    /\ task_lock = 0
    /\ LET tx == requests[r].tx
           registered == running_tasks[tx]
       IN  IF registered # 0 /\ IsAlive(registered)
           THEN /\ requests' = [requests EXCEPT ![r].pc = "already_running"]
                /\ UNCHANGED <<running_tasks, task_lock>>
           ELSE /\ requests' = [requests EXCEPT ![r].pc = "get"]
                /\ running_tasks' = [running_tasks EXCEPT ![tx] = 0]
                /\ task_lock' = r
    /\ UNCHANGED <<files, saved, threads, poller>>
    /\ UNCHANGED <<bytecode, pc, i, selectors, storage_slots, slot_origin,
                   result, solidity_output>>
    /\ UNCHANGED <<adapter_vars, abi_vars, call_vars, decoder_vars, state_vars>>

\* analysis_thread_handler: state_storage.get, the two returns, and the
\* start and registration of the thread; the lock is released
HandlerStart(r) ==
    /\ pc = "server"
    /\ requests[r].pc = "get"
    /\ task_lock = r
    /\ LET tx == requests[r].tx
           got == StateStorageGet(files[tx])
       IN  IF got = NoAnalysis
           THEN /\ requests' = [requests EXCEPT ![r].pc = "not_found"]
                /\ UNCHANGED <<running_tasks, threads>>
           ELSE IF got.status = "done"
           THEN /\ requests' = [requests EXCEPT ![r].pc = "already_done"]
                /\ UNCHANGED <<running_tasks, threads>>
           ELSE /\ requests' = [requests EXCEPT ![r].pc = "started"]
                /\ threads' = [threads EXCEPT
                     ![r] = Task("save",
                                 tx, [got EXCEPT !.result = SimulationResult])]
                /\ running_tasks' = [running_tasks EXCEPT ![tx] = r]
    /\ task_lock' = 0
    /\ UNCHANGED <<files, saved, poller>>
    /\ UNCHANGED <<bytecode, pc, i, selectors, storage_slots, slot_origin,
                   result, solidity_output>>
    /\ UNCHANGED <<adapter_vars, abi_vars, call_vars, decoder_vars, state_vars>>

\* what the thread does after each of its saves
AfterSave(obj) ==
    IF obj.status = "done" THEN "finally"
    ELSE IF obj.result = SimulationResult THEN "simulate"
    ELSE IF obj.reason = 0 THEN "llm"
    ELSE "update"

\* state_storage.save(analysis) in analysis_thread and in
\* update_result_and_save, the open
ThreadOpen(k) ==
    /\ pc = "server"
    /\ threads[k].pc = "save"
    /\ OpenForWriting(threads[k].tx)
    /\ threads' = [threads EXCEPT ![k].pc = "dump"]
    /\ UNCHANGED <<running_tasks, task_lock, saved, requests, poller>>
    /\ UNCHANGED <<bytecode, pc, i, selectors, storage_slots, slot_origin,
                   result, solidity_output>>
    /\ UNCHANGED <<adapter_vars, abi_vars, call_vars, decoder_vars, state_vars>>

\* the dump of the same save
ThreadDump(k) ==
    /\ pc = "server"
    /\ threads[k].pc = "dump"
    /\ Dump(threads[k].obj)
    /\ threads' = [threads EXCEPT ![k].pc = AfterSave(threads[k].obj)]
    /\ UNCHANGED <<running_tasks, task_lock, requests, poller>>
    /\ UNCHANGED <<bytecode, pc, i, selectors, storage_slots, slot_origin,
                   result, solidity_output>>
    /\ UNCHANGED <<adapter_vars, abi_vars, call_vars, decoder_vars, state_vars>>

\* trt.simulate_transaction: it raises, or returns no contract, or one
Simulate(k) ==
    /\ pc = "server"
    /\ threads[k].pc = "simulate"
    /\ \/ threads' = [threads EXCEPT ![k].pc = "finally"]
       \/ threads' = [threads EXCEPT ![k].pc = "update"]
       \/ threads' = [threads EXCEPT ![k].pc = "save",
                                     ![k].obj.result = LlmResult]
    /\ UNCHANGED <<running_tasks, task_lock, files, saved, requests, poller>>
    /\ UNCHANGED <<bytecode, pc, i, selectors, storage_slots, slot_origin,
                   result, solidity_output>>
    /\ UNCHANGED <<adapter_vars, abi_vars, call_vars, decoder_vars, state_vars>>

\* the completion: it raises or its content is None, or the content is
\* not JSON, or the reason is appended and the state saved
Llm(k) ==
    /\ pc = "server"
    /\ threads[k].pc = "llm"
    /\ \/ threads' = [threads EXCEPT ![k].pc = "finally"]
       \/ threads' = [threads EXCEPT ![k].pc = "update"]
       \/ threads' = [threads EXCEPT ![k].pc = "save", ![k].obj.reason = 1]
    /\ UNCHANGED <<running_tasks, task_lock, files, saved, requests, poller>>
    /\ UNCHANGED <<bytecode, pc, i, selectors, storage_slots, slot_origin,
                   result, solidity_output>>
    /\ UNCHANGED <<adapter_vars, abi_vars, call_vars, decoder_vars, state_vars>>

\* update_result_and_save up to its save
UpdateResult(k) ==
    /\ pc = "server"
    /\ threads[k].pc = "update"
    /\ threads' = [threads EXCEPT ![k].pc = "save",
                                  ![k].obj.status = "done",
                                  ![k].obj.result = FinalResult]
    /\ UNCHANGED <<running_tasks, task_lock, files, saved, requests, poller>>
    /\ UNCHANGED <<bytecode, pc, i, selectors, storage_slots, slot_origin,
                   result, solidity_output>>
    /\ UNCHANGED <<adapter_vars, abi_vars, call_vars, decoder_vars, state_vars>>

\* finally: with task_lock: del running_tasks[analysis.tx]
ThreadFinally(k) ==
    /\ pc = "server"
    /\ threads[k].pc = "finally"
    /\ task_lock = 0
    /\ running_tasks' = [running_tasks EXCEPT ![threads[k].tx] = 0]
    /\ threads' = [threads EXCEPT ![k].pc = "exiting"]
    /\ UNCHANGED <<task_lock, files, saved, requests, poller>>
    /\ UNCHANGED <<bytecode, pc, i, selectors, storage_slots, slot_origin,
                   result, solidity_output>>
    /\ UNCHANGED <<adapter_vars, abi_vars, call_vars, decoder_vars, state_vars>>

\* analysis_thread returns (or its exception is reported) and the
\* interpreter marks the thread as stopped
ThreadEnd(k) ==
    /\ pc = "server"
    /\ threads[k].pc = "exiting"
    /\ threads' = [threads EXCEPT ![k].pc = "ended"]
    /\ UNCHANGED <<running_tasks, task_lock, files, saved, requests, poller>>
    /\ UNCHANGED <<bytecode, pc, i, selectors, storage_slots, slot_origin,
                   result, solidity_output>>
    /\ UNCHANGED <<adapter_vars, abi_vars, call_vars, decoder_vars, state_vars>>

\* what a /analysis-stream request has seen: the last get, and whether a
\* save of the hash had completed before it
Seen(at, tx, obj, after_save) ==
    [pc |-> at, tx |-> tx, obj |-> obj, after_save |-> after_save]

\* analysis_stream: one turn of the loop
Poll ==
    /\ pc = "server"
    /\ poller.pc = "poll"
    /\ \E tx \in Txs :
          LET got == StateStorageGet(files[tx])
              at == IF got = NoAnalysis THEN "not_found"
                    ELSE IF got.status = "done" THEN "finished"
                    ELSE "poll"
          IN  /\ poller.tx \in {"", tx}
              /\ poller' = Seen(at, tx, got, saved[tx] # {})
    /\ UNCHANGED <<running_tasks, task_lock, files, saved, threads, requests>>
    /\ UNCHANGED <<bytecode, pc, i, selectors, storage_slots, slot_origin,
                   result, solidity_output>>
    /\ UNCHANGED <<adapter_vars, abi_vars, call_vars, decoder_vars, state_vars>>

InitServer ==
    /\ pc = "server"
    /\ running_tasks = [tx \in Txs |-> 0]
    /\ task_lock = 0
    /\ files = [tx \in Txs |-> Missing]
    /\ saved = [tx \in Txs |-> {}]
    /\ threads = [k \in RequestIds |-> NoTask]
    /\ requests = [r \in RequestIds |-> NoTask]
    /\ poller = Seen("poll", "", NoAnalysis, FALSE)
    /\ analysis = <<>>
    /\ loaded = <<>>
    /\ bytecode = <<>>
    /\ FallbackLocals
    /\ AdapterIdle
    /\ AbiIdle
    /\ CallIdle
    /\ DecoderIdle

\* the steps of one /sign request after its arrival
RequestStep(r) ==
    \/ SignOpen(r)
    \/ SignDump(r)
    \/ HandlerEnter(r)
    \/ HandlerStart(r)

\* the steps of one analysis thread
ThreadStep(k) ==
    \/ ThreadOpen(k)
    \/ ThreadDump(k)
    \/ Simulate(k)
    \/ Llm(k)
    \/ UpdateResult(k)
    \/ ThreadFinally(k)
    \/ ThreadEnd(k)

NextServer ==
    \/ \E r \in RequestIds : Sign(r)
    \/ \E r \in RequestIds : RequestStep(r)
    \/ \E k \in RequestIds : ThreadStep(k)
    \/ Poll

SpecServer == InitServer /\ [][NextServer]_vars

\* every request that has arrived, every thread that was started and the
\* polling loop keep being scheduled; no request has to arrive
FairServer ==
    /\ \A r \in RequestIds : WF_vars(RequestStep(r))
    /\ \A k \in RequestIds : WF_vars(ThreadStep(k))
    /\ WF_vars(Poll)

SpecServerFair == SpecServer /\ FairServer

---------------------------------------------------------------------------
(* Properties of the fallback *)

\* the byte (two characters) at character offset p
ByteAt(bc, p) == PySlice(bc, p, p + 2)

\* b is a byte in 0x60..0x7f
IsPushByte(b) == /\ Len(b) = 2
                 /\ IsHexChar(b[1]) /\ IsHexChar(b[2])
                 /\ IntHex(b) >= 96 /\ IntHex(b) <= 127

\* n of PUSHn
PushWidth(b) == IntHex(b) - 96 + 1

\* the immediate of the PUSH at p, as far as the bytecode goes
ImmediateAt(bc, p) == PySlice(bc, p + 2, p + 2 + 2 * PushWidth(ByteAt(bc, p)))

EvenOffsets(bc) == {p \in 0..Len(bc) : p % 2 = 0 /\ p + 2 <= Len(bc)}

SelectorScanDone == pc \in {"slots", "disasm", "render", "done", "raised"}
SlotScanDone == pc \in {"disasm", "render", "done"}

\* the PUSH4 sites the scan comes to: from 0, five bytes on after a PUSH4 and
\* one byte on after any other byte
RECURSIVE Push4Sites(_, _)
Push4Sites(bc, p) ==
    IF p + 2 > Len(bc) THEN <<>>
    ELSE IF ByteAt(bc, p) = <<"6","3">>
         THEN <<p>> \o Push4Sites(bc, p + 10)
         ELSE Push4Sites(bc, p + 2)

RECURSIVE SelectSeq2(_, _)
SelectSeq2(bc, sites) ==
    IF sites = <<>> THEN <<>>
    ELSE LET imm == PySlice(bc, sites[1] + 2, sites[1] + 10)
         IN (IF Len(imm) = 8 /\ AllLowerHex(imm) THEN <<imm>> ELSE <<>>)
            \o SelectSeq2(bc, Tail(sites))

\* the immediates of the PUSH4 sites that have four lower-case hex bytes
ExpectedSelectors(bc) == SelectSeq2(bc, Push4Sites(bc, 0))

\* C3 (as claimed): once the selector scan has returned, every PUSH4 site it
\* comes to that is followed by four valid-hex bytes has its selector
\* recorded, in order, also when those four bytes end the bytecode.
C3_EverySelectorRecorded ==
    SelectorScanDone =>
        LET expected == ExpectedSelectors(bytecode)
        IN /\ Len(selectors) >= Len(expected)
           /\ \A k \in 1..Len(expected) : selectors[k][1] = expected[k]

\* C4: a step of the selector scan at a PUSH4 byte moves on by five bytes and
\* records at most the four bytes after it; a step at any other byte moves on
\* by one byte and records nothing.  So no byte of a PUSH4 immediate is ever
\* examined as an opcode.
C4_ImmediateNeverReexamined ==
    [][(pc = "selectors" /\ pc' = "selectors") =>
         IF ByteAt(bytecode, i) = <<"6","3">>
         THEN /\ i' = i + 10
              /\ \/ selectors' = selectors
                 \/ /\ Len(selectors') = Len(selectors) + 1
                    /\ SubSeq(selectors', 1, Len(selectors)) = selectors
                    /\ selectors'[Len(selectors')][1]
                         = PySlice(bytecode, i + 2, i + 10)
         ELSE /\ i' = i + 2
              /\ selectors' = selectors]_vars

\* the scan is past a PUSH4 at 0 whose immediate starts with a 0x63 byte
C4_Witness ==
    /\ pc = "selectors"
    /\ i = 10
    /\ ByteAt(bytecode, 0) = <<"6","3">>
    /\ ByteAt(bytecode, 2) = <<"6","3">>
    /\ Len(selectors) = 1

\* C5: every slot guess is the immediate of a byte in 0x60..0x7f that lies at
\* most 35 bytes (70 characters) before an SLOAD or SSTORE byte.
C5_GuessWithinWindow ==
    /\ \A k \in 1..Len(slot_origin) :
          LET back == slot_origin[k][1]
              at == slot_origin[k][2]
          IN /\ back >= 0 /\ back < at
             /\ at - back <= 70
             /\ ByteAt(bytecode, at) \in {<<"5","4">>, <<"5","5">>}
             /\ IsPushByte(ByteAt(bytecode, back))
    /\ \A k \in 1..Len(storage_slots) :
          \E o \in 1..Len(slot_origin) :
              storage_slots[k] = ImmediateAt(bytecode, slot_origin[o][1])

\* the only PUSH lies 36 or more bytes before the SLOAD/SSTORE: no guess
C5_Witness ==
    /\ pc = "done"
    /\ ByteAt(bytecode, 0) = <<"6","0">>
    /\ \E at \in EvenOffsets(bytecode) :
          /\ at >= 72
          /\ ByteAt(bytecode, at) \in {<<"5","4">>, <<"5","5">>}
          /\ at < Len(bytecode) - 4
    /\ storage_slots = <<>>

\* the PUSH-range bytes within 35 bytes before the SLOAD/SSTORE at `at`
PushesInWindow(bc, at) ==
    {b \in EvenOffsets(bc) : b < at /\ at - b <= 70 /\ IsPushByte(ByteAt(bc, b))}

Nearest(S) == CHOOSE b \in S : \A c \in S : c <= b

\* C6 (as claimed): once the slot scan has returned, every SLOAD/SSTORE byte
\* of the bytecode, the last and the second-to-last included, whose window
\* holds a PUSH has the nearest PUSH's immediate among the guesses (stated
\* for a complete, valid-hex immediate that ends before the SLOAD/SSTORE).
C6_EveryStorageOpScanned ==
    SlotScanDone =>
        \A at \in EvenOffsets(bytecode) :
            (/\ ByteAt(bytecode, at) \in {<<"5","4">>, <<"5","5">>}
             /\ PushesInWindow(bytecode, at) # {})
            => LET back == Nearest(PushesInWindow(bytecode, at))
                   imm == ImmediateAt(bytecode, back)
               IN (/\ Len(imm) = 2 * PushWidth(ByteAt(bytecode, back))
                   /\ back + 2 + Len(imm) <= at
                   /\ AllLowerHex(imm))
                  => \E k \in 1..Len(storage_slots) : storage_slots[k] = imm

DisasmEmits == pc = "disasm" /\ Len(result') = Len(result) + 1

\* C7: a disassembly step at a PUSHn byte with n bytes after it emits exactly
\* those n bytes as the immediate and moves on to the byte after them.
C7_PushImmediateExact ==
    [][(/\ DisasmEmits
        /\ IsPushByte(ByteAt(bytecode, i))
        /\ i + 2 + 2 * PushWidth(ByteAt(bytecode, i)) <= Len(bytecode))
       => LET n == PushWidth(ByteAt(bytecode, i))
              last == result'[Len(result')]
          IN /\ SubSeq(result', 1, Len(result)) = result
             /\ last.form = "push"
             /\ Len(last.data) = 2 * n
             /\ last.data = SubSeq(bytecode, i + 3, i + 2 + 2 * n)
             /\ i' = i + 2 + 2 * n]_vars

\* a PUSH32 has been disassembled with its 32 bytes
C7_Witness ==
    /\ pc = "disasm"
    /\ Len(result) > 0
    /\ result[Len(result)].form = "push"
    /\ result[Len(result)].name = "PUSH32"
    /\ Len(result[Len(result)].data) = 64

\* C8: a disassembly step at a PUSHn byte with fewer than n bytes after it
\* emits one entry marked incomplete and ends the scan; an incomplete entry
\* is always the last entry of the output.
C8_IncompleteIsLast ==
    /\ [][(/\ DisasmEmits
           /\ IsPushByte(ByteAt(bytecode, i))
           /\ i + 2 + 2 * PushWidth(ByteAt(bytecode, i)) > Len(bytecode))
          => /\ SubSeq(result', 1, Len(result)) = result
             /\ result'[Len(result')].form = "incomplete"
             /\ i' >= Len(bytecode)]_vars
    /\ [](\A k \in 1..Len(result) :
             result[k].form = "incomplete"
             => k = Len(result) /\ ~(pc = "disasm" /\ DisasmLoopGuard))

\* a PUSH4 with one byte after it: one incomplete entry and nothing else
C8_Witness ==
    /\ pc = "done"
    /\ bytecode = <<"6","3","0","c">>
    /\ Len(result) = 1
    /\ result[1].form = "incomplete"

\* C9: a disassembly step at a byte that is not in the opcode table emits one
\* UNKNOWN entry with that byte and moves on by one byte.  The disassembly
\* never raises and always ends: the loop is left only by the return, no
\* exception is raised once an entry has been emitted, and every step moves
\* i forward while i < len(bytecode) (len(bytecode) - i is a variant).
C9_UnknownNeverFails ==
    /\ [][(DisasmEmits /\ ~InOpcodes(Lower(ByteAt(bytecode, i))))
          => /\ result' = Append(result,
                                 Entry("unknown", Lower(ByteAt(bytecode, i)),
                                       "UNKNOWN", <<>>))
             /\ i' = i + 2
             /\ pc' = "disasm"]_vars
    /\ [][pc = "disasm" => /\ pc' \in {"disasm", "render"}
                           /\ pc' = "disasm" => (i < Len(bytecode) /\ i' > i)
                           /\ pc' = "render" => result' = result]_vars
    /\ [](pc = "raised" => result = <<>>)

\* a byte that is no opcode and a byte that is not hex were both disassembled
C9_Witness ==
    /\ pc = "done"
    /\ \E k \in 1..Len(result) :
          result[k].form = "unknown" /\ result[k].opcode = <<"0","c">>
    /\ \E k \in 1..Len(result) :
          result[k].form = "unknown" /\ result[k].opcode = <<"6","g">>
    /\ Len(result) >= 3

\* the parts of the output between the listing's opening and closing lines
Listing(out) ==
    LET open == CHOOSE k \in 1..Len(out) : out[k].kind = "listing_open"
    IN SubSeq(out, open + 1, Len(out) - 1)

\* C10: with more than 100 instructions the listing is the first 100 in
\* order and then the truncation marker; with 100 or fewer it is all of them
\* and no marker.
C10_ListingTruncation ==
    pc = "done" =>
        LET listing == Listing(solidity_output)
        IN IF Len(result) > 100
           THEN /\ Len(listing) = 101
                /\ \A k \in 1..100 : /\ listing[k].kind = "opcode"
                                     /\ listing[k].entry = result[k]
                /\ listing[101].kind = "truncated"
           ELSE /\ Len(listing) = Len(result)
                /\ \A k \in 1..Len(result) : /\ listing[k].kind = "opcode"
                                             /\ listing[k].entry = result[k]

\* an output with 101 or more instructions, truncated
C10_Witness ==
    /\ pc = "done"
    /\ Len(result) > 100
    /\ \E k \in 1..Len(solidity_output) : solidity_output[k].kind = "truncated"

---------------------------------------------------------------------------
(* Properties of the backend attempts *)

\* C2 (as claimed): when a backend attempt returns, the temporary file it
\* created no longer exists, on every exit path.
C2_TempFileRemoved ==
    pc = "attempt_returned" => backend \notin temp_files

C20_MalformedReported ==
    pc = "returned" /\ installed = {} /\ FromHexRaises(StripPrefix(input)) =>
        /\ output.kind = "failed"
        /\ result = <<>>
        /\ selectors = <<>>
        /\ storage_slots = <<>>

\* the positions of the parts of one kind in a text
PartsOf(out, kind) == {p \in 1..Len(out) : out[p].kind = kind}

\* the j-th of them
NthPart(out, kind, j) ==
    out[CHOOSE p \in PartsOf(out, kind) :
          Cardinality({q \in PartsOf(out, kind) : q < p}) = j - 1]

\* the values the slot scan guessed, one for each site it recorded
Guesses == {ImmediateAt(bytecode, slot_origin[k][1]) :
              k \in 1..Len(slot_origin)}

\* C25: the text of the fallback has one storage stub for each distinct value
\* the slot scan guessed, numbered from 0 in the order they are printed; one
\* stub function for each entry of the selector scan, in scan order, so k
\* stubs for a selector found k times; and one fallback stub and one receive
\* stub on every input.
C25_CompositionCounts ==
    pc = "done" =>
        /\ Cardinality(PartsOf(solidity_output, "storage_stub")) =
              Cardinality(Guesses)
        /\ {solidity_output[p].text :
               p \in PartsOf(solidity_output, "storage_stub")} = Guesses
        /\ \A j \in 1..Cardinality(Guesses) :
              NthPart(solidity_output, "storage_stub", j).idx = j - 1
        /\ Cardinality(PartsOf(solidity_output, "function_stub")) =
              Len(selectors)
        /\ \A j \in 1..Len(selectors) :
              /\ NthPart(solidity_output, "function_stub", j).text =
                    selectors[j][1]
              /\ NthPart(solidity_output, "function_stub", j).sig =
                    selectors[j][2]
        /\ Cardinality(PartsOf(solidity_output, "fallback_stub")) = 1
        /\ Cardinality(PartsOf(solidity_output, "receive_stub")) = 1

\* slot 01 was guessed at an SLOAD and at an SSTORE and has one stub; the
\* selector of transfer was found twice and has two
C25_Witness ==
    /\ pc = "done"
    /\ Len(slot_origin) = 2
    /\ Cardinality(PartsOf(solidity_output, "storage_stub")) = 1
    /\ Len(selectors) = 2
    /\ selectors[1] = selectors[2]
    /\ Cardinality(PartsOf(solidity_output, "function_stub")) = 2

\* C24 (as claimed): while the slot scan runs, every guess it has recorded
\* has as many bytes as the PUSH it was taken from pushes: opcode - 0x60 + 1.
C24_CompleteImmediate ==
    pc = "slots" =>
        /\ Len(storage_slots) = Len(slot_origin)
        /\ \A k \in 1..Len(storage_slots) :
              Len(storage_slots[k]) =
                  2 * PushSize(ByteAt(bytecode, slot_origin[k][1]))

\* _disassemble_opcodes reaches index target as the index of an opcode
RECURSIVE IsOpcodePosition(_, _, _)
IsOpcodePosition(bc, at, target) ==
    IF at >= target THEN at = target
    ELSE IsOpcodePosition(bc, DisasmAt(bc, at).next, target)

\* C23 (as claimed): when the selector scan records a selector, the 63 byte
\* at i is the opcode of an instruction of the disassembly of the same
\* bytecode, and this instruction is a PUSH4 with the selector as its
\* immediate.
C23_SelectorAfterPush4 ==
    [][pc = "selectors" /\ Len(selectors') > Len(selectors) =>
        /\ IsOpcodePosition(bytecode, 0, i)
        /\ DisasmAt(bytecode, i).entry =
             Entry("push", <<"6","3">>, "PUSH4",
                   selectors'[Len(selectors')][1])]_vars

\* C22 (as claimed): the text of the fallback is a function of the bytecode:
\* every text another run on the same bytecode can produce, with the slot
\* guesses in the order list(set(...)) gives them there, is the text of this
\* run.
C22_Deterministic ==
    pc = "done" =>
        \A other \in ListOfSet(storage_slots) :
            Rendered(selectors, other, result) = solidity_output

\* the attempts in which the tool was run and raised, or bytes.fromhex did
Faults == {k \in 1..Len(attempts) : attempts[k][2] \in {"error", "timeout"}}

\* C21: decompile_bytecode always ends by returning a text.  An attempt in
\* which something was raised returns None and the next backend, or the
\* fallback, is tried; an exception raised anywhere else is caught and the
\* text returned is the failure message, which echoes the first 100
\* characters of the input and no more.
C21_NoExceptionEscapes ==
    /\ [][pc = "raised" =>
            /\ pc' = "returned"
            /\ output' = Text("failed", "", <<>>, PySlice(input, 0, 100))]_vars
    /\ [](pc = "attempt_returned" /\ Len(attempts) \in Faults =>
            decompiled = NoText)
    /\ [](pc = "returned" =>
            /\ output.kind \in {"backend", "fallback", "failed"}
            /\ output.kind = "failed" =>
                  /\ Len(output.echo) <= 100
                  /\ output.echo = SubSeq(input, 1, Len(output.echo))
                  /\ Len(output.echo) < 100 => output.echo = input)

\* an input of more than 100 characters: ethersplay raised on it and was
\* passed over, the fallback raised, and the failure message was returned
C21_Witness ==
    /\ pc = "returned"
    /\ output.kind = "failed"
    /\ Len(input) > 100
    /\ Len(output.echo) = 100
    /\ Faults # {}

\* the attempts that returned a text
Successes == {k \in 1..Len(attempts) : attempts[k][2] = "success"}

\* C12: the backends are tried in the order heimdall, panoramix, ethersplay,
\* each one once; an attempt that returned a text is the last attempt and
\* decompile_bytecode returns its text; an attempt of a tool that is not
\* installed, failed, timed out, raised or printed nothing returns None, and
\* when all three did so the fallback is what decompile_bytecode runs.
C12_FirstSuccessWins ==
    /\ Len(attempts) <= Len(Backends)
    /\ \A k \in 1..Len(attempts) :
          /\ attempts[k][1] = Backends[k]
          /\ attempts[k][2] = "unavailable" <=> Backends[k] \notin installed
          /\ attempts[k][2] = "success" => k = Len(attempts)
    /\ pc = "attempt_returned" =>
          /\ Len(attempts) > 0
          /\ decompiled = NoText <=> Successes = {}
    /\ pc = "returned" /\ Successes # {} =>
          output = Text("backend", attempts[Len(attempts)][1], <<>>, <<>>)
    /\ pc = "returned" /\ Successes = {} =>
          /\ Len(attempts) = Len(Backends)
          /\ output.kind \in {"fallback", "failed"}
    /\ pc \in {"fallback", "selectors", "slots", "disasm", "render", "done",
               "raised"} =>
          Len(attempts) = Len(Backends) /\ Successes = {}

\* panoramix returned a text after heimdall was not installed, and
\* ethersplay was never tried although it is installed
C12_Witness ==
    /\ pc = "returned"
    /\ installed = {"panoramix", "ethersplay"}
    /\ attempts = <<<<"heimdall", "unavailable">>, <<"panoramix", "success">>>>
    /\ output.by = "panoramix"

---------------------------------------------------------------------------
(* Properties of _decode_transaction_input *)

\* a9059cbb, the address 0x00...01 and the amount 10^18 = 0xde0b6b3a7640000
TransferOneToken ==
    TransferSelector \o Zeros(63) \o <<"1">> \o Zeros(49)
    \o <<"d","e","0","b","6","b","3","a","7","6","4","0","0","0","0">>

\* C13: the call data of transfer(0x00...01, 10^18) decodes to the function
\* transfer, 'to' being the address (it holds no letter, so its checksummed
\* form is itself) and 'value' being raw 1000000000000000000, formatted "1".
C13_TransferOneToken ==
    pc = "input_returned" /\ input_data = TransferOneToken /\ tx_to # None =>
        /\ call_result.name = "transfer"
        /\ "parameters" \in call_result.keys
        /\ Len(call_result.parameters) = 2
        /\ call_result.parameters[1] =
              <<"to", Str(<<"0","x">> \o Zeros(39) \o <<"1">>)>>
        /\ call_result.parameters[2][1] = "value"
        /\ call_result.parameters[2][2].t = "amount"
        /\ BigStr(call_result.parameters[2][2].n) = <<"1">> \o Zeros(18)
        /\ call_result.parameters[2][2].s = <<"1">>

C13_Witness ==
    /\ pc = "input_returned"
    /\ input_data = TransferOneToken
    /\ tx_to # None
    /\ "parameters" \in call_result.keys

---------------------------------------------------------------------------
(* Properties of InputDecoder *)

\* contract_source was not given, or was parsed and processed to its end
SourceAccepted ==
    \/ contract_source.kind = "None"
    \/ contract_source.kind \in {"json", "solidity"} /\ abi_index > Len(abi)

\* the result of a call whose selector the registry does not hold
IsUnknownResult(r, call_data) ==
    /\ r.keys = {"function_selector", "raw_parameters"}
    /\ r.function_selector = <<"0","x">> \o PySlice(call_data, 0, 8)
    /\ r.raw_parameters = PySlice(call_data, 8, Len(call_data))

\* C14: a call whose selector is not a key of the registry (InputDecoder:
\* the top-level call and the nested one) or of known_selectors
\* (_decode_transaction_input) gives a dictionary with the selector and
\* with the rest of the data as it was under raw_parameters, and without an
\* error key; this is returned, not raised.
C14_UnknownSelector ==
    /\ pc = "decode_returned" /\ SourceAccepted /\ Len(decoder_input) >= 10
          /\ PySlice(decoder_input, 0, 10) \notin DOMAIN function_selectors =>
            IsUnknownResult(decoded, StripPrefix(decoder_input))
    /\ pc = "decode_returned" /\ "nested_call" \in decoded.keys
          /\ (<<"0","x">> \o PySlice(Get(decoded.params, "data").s, 2, 10))
                \notin DOMAIN function_selectors =>
            IsUnknownResult(decoded.nested_call[1],
                            StripPrefix(Get(decoded.params, "data").s))
    /\ pc = "input_returned" /\ tx_to # None /\ Len(input_data) >= 10
          /\ PySlice(input_data, 0, 10) \notin DOMAIN input_known_selectors =>
            /\ {"function_selector", "raw_parameters"} \subseteq
                  call_result.keys
            /\ call_result.keys \cap {"error", "decoding_error"} = {}
            /\ call_result.function_selector = PySlice(input_data, 0, 10)
            /\ call_result.raw_parameters =
                  PySlice(input_data, 10, Len(input_data))

\* an unknown selector followed by two characters that are not hex digits
C14_Witness ==
    /\ pc = "decode_returned"
    /\ SourceAccepted
    /\ decoded.keys = {"function_selector", "raw_parameters"}
    /\ decoded.raw_parameters = <<"z","z">>

\* the data parameter of a decoded call is a non-empty blob
HasCallData(r) ==
    /\ r.function = "execTransaction"
    /\ "params" \in r.keys
    /\ Get(r.params, "data").t = "str"
    /\ Get(r.params, "data").s \notin {<<>>, <<"0","x">>}

\* C15: decode_input attaches nested_call exactly when the call decoded as
\* execTransaction and its data parameter is neither empty nor "0x"; the
\* nested result is what _decode_function_call gives for that data, and it
\* has no nested_call of its own, also when it is an execTransaction with
\* data again.
C15_OneLevel ==
    pc = "decode_returned" =>
        /\ "nested_call" \in decoded.keys <=> HasCallData(decoded)
        /\ "nested_call" \in decoded.keys =>
              /\ decoded.nested_call[1] =
                    _decode_function_call(function_selectors,
                                          Get(decoded.params, "data").s)
              /\ "nested_call" \notin decoded.nested_call[1].keys

\* the nested call is an execTransaction that carries a call itself
C15_Witness ==
    /\ pc = "decode_returned"
    /\ "nested_call" \in decoded.keys
    /\ HasCallData(decoded.nested_call[1])

\* C18: no step of decode_input, whatever its arguments and however it
\* ends, takes a selector out of function_selectors: the selectors after a
\* step include the selectors before it.
C18_RegistryGrows ==
    [][DOMAIN function_selectors \subseteq DOMAIN function_selectors']_vars

\* a second call that added a selector and then failed, on a registry the
\* first call had extended
C18_Witness ==
    /\ pc = "decode_returned"
    /\ calls = 2
    /\ "error" \in decoded.keys
    /\ DOMAIN InitialSelectors # selectors_before
    /\ selectors_before # DOMAIN function_selectors
    /\ DOMAIN InitialSelectors \subseteq DOMAIN function_selectors

\* C19 (as claimed): a caller that looks selectors up while another call
\* extends the registry with an ABI sees either none or all of the selectors
\* this ABI adds.
C19_ConsistentSnapshot ==
    snapshot.seen = {} \/ snapshot.seen = snapshot.adding

\* C29: when decode_input returns the 'Failed to parse contract source'
\* error, the registry holds the selectors it held before the call.
C29_AllOrNothing ==
    pc = "decode_returned"
      /\ decoded.error = "Failed to parse contract source" =>
        DOMAIN function_selectors = selectors_before

---------------------------------------------------------------------------
(* Properties of the server *)

\* C26: at every moment at most one analysis thread is alive for a
\* transaction hash.
C26_OneThreadPerHash ==
    pc = "server" =>
      \A j \in RequestIds, k \in RequestIds :
         j # k /\ IsAlive(j) /\ IsAlive(k) => threads[j].tx # threads[k].tx

\* the stored state of the hash has status 'done'
StoredDone(tx) ==
    /\ tx \in Txs
    /\ files[tx].kind = "json"
    /\ files[tx].data.status = "done"

\* C27: under fair scheduling, once a /sign request has saved its state
\* with status 'doing' and calls analysis_thread_handler, the stored state of
\* its hash is eventually 'done'.
C27_EventuallyDone ==
    \A r \in RequestIds :
       (pc = "server" /\ requests[r].pc = "handler")
         ~> StoredDone(requests[r].tx)

\* C28: a get of a hash that has been saved returns one of the saved
\* states of that hash, never None.
C28_GetReturnsSaved ==
    pc = "server" /\ poller.after_save => poller.obj \in saved[poller.tx]

---------------------------------------------------------------------------
(* Properties of AnalysisState and StateStorage *)

\* C30: the status of an AnalysisState is 'doing' or 'done' after every
\* assignment and every from_dict; an assignment of a valid value sets it, an
\* assignment of another value, or from_dict of a dictionary with such a
\* value or without one, raises ValueError and leaves the status as it was;
\* and StateStorage.get returns None for a file whose status is not valid.
C30_StatusInvariant ==
    /\ [](pc = "state" =>
            /\ ValidStatus(analysis.obj.status)
            /\ analysis.raised <=> analysis.assigned \notin {"doing", "done"}
            /\ ~analysis.raised => analysis.obj.status = analysis.assigned
            /\ loaded.file.kind = "json"
                  /\ loaded.file.data.status \notin {"doing", "done"} =>
                    loaded.state = NoAnalysis)
    /\ [][pc = "state" /\ analysis'.raised =>
            analysis'.obj.status = analysis.obj.status]_vars

\* 'done' was assigned, then a value that is not valid, and the status is
\* still 'done'; and get has returned None for a file without a status
C30_Witness ==
    /\ pc = "state"
    /\ analysis.raised
    /\ analysis.obj.status = "done"
    /\ loaded.file.kind = "json"
    /\ loaded.file.data.status = None
    /\ loaded.state = NoAnalysis

---------------------------------------------------------------------------
(* Properties of the ABI decoder *)

\* the head word of parameter k, where the encoding has it
HeadWord(k) == PySlice(parameters, 64 * (k - 1), 64 * k)

\* parameter k cannot be read from the blob: its head word is not all there,
\* or it is dynamic and its offset, or its length from there, goes past the
\* end of the blob
TruncatedAt(k) ==
    \/ 64 * k > Len(parameters)
    \/ /\ param_types[k] = "bytes" \/ EndsWithBrackets(param_types[k])
       /\ LET at == AsIndex(BigHex(HeadWord(k))) * 2
              length == AsIndex(BigHex(PySlice(parameters, at, at + 64)))
              width == IF param_types[k] = "bytes" THEN 2 ELSE 64
          IN \/ at + 64 > Len(parameters)
             \/ at + 64 + width * length > Len(parameters)

\* C16 (as claimed): in what _decode_parameters returns, every parameter
\* that cannot be read from the blob is None, and every parameter has its
\* entry.
C16_TruncatedSlotIsNone ==
    pc = "decoded" =>
        /\ Len(decoded_params) = Len(param_types)
        /\ \A k \in 1..Len(param_types) :
              TruncatedAt(k) => decoded_params[k] = NoneValue

\* the Python type of the entry of a parameter of type param_type, None for
\* one that cannot be read
EntryOf(param_type) ==
    IF param_type = "address" THEN {"str", "None"}
    ELSE IF StartsWithUint(param_type) THEN {"int", "None"}
    ELSE IF param_type = "bool" THEN {"bool", "None"}
    ELSE IF param_type = "bytes" THEN {"str", "None"}
    ELSE IF EndsWithBrackets(param_type) THEN {"list"}
    ELSE {"str", "None"}

C1_RoundTrip ==
    pc = "decoded" =>
        /\ Len(decoded_params) = Len(values)
        /\ \A k \in 1..Len(values) : decoded_params[k] = values[k]

====
